---------------------------- MODULE Spec2Model ----------------------------
(***************************************************************************)
(* A model of the xv6-riscv kernel core (kernel/bio.c, kernel/log.c,       *)
(* kernel/fs.c, kernel/proc.c, kernel/sleeplock.c, kernel/spinlock.c,      *)
(* kernel/kalloc.c, kernel/vm.c, kernel/exec.c, kernel/trap.c).            *)
(*                                                                         *)
(* The module holds several specifications over one set of variables; a   *)
(* specification leaves the variables of the other subsystems at their    *)
(* initial values.                                                         *)
(*   SpecBio   - the buffer cache under concurrent bread/brelse/bpin       *)
(*   SpecLog   - the redo log: transactions, commit, crash and recovery    *)
(*   SpecInode - the in-memory inode table under iget/idup/ilock/iput      *)
(*   SpecProc  - the process table: scheduler, sleep/wakeup, fork/exit/    *)
(*               wait/kill and sleep locks, at spin-lock granularity       *)
(*   SpecWaitFair, SpecKillFair, SpecSleepFair - parts of SpecProc under   *)
(*               fair scheduling                                           *)
(*   SpecVm    - physical frames and the page tables of processes under    *)
(*               fork, exit, sbrk, exec, page faults and copyout           *)
(*   SpecWritei - one inode under writei and itrunc                        *)
(*   SpecSpin  - harts that acquire and release spin locks                 *)
(*   SpecBeginOpFair - processes in begin_op, log_write and end_op with    *)
(*               their sleep and wakeup, under fair scheduling             *)
(*   SpecSched - harts in scheduler() and processes in yield, sleep and    *)
(*               kexit up to sched, with push_off/pop_off and interrupts   *)
(*   SpecLifecycle - SpecProc with the failure path of allocproc and kfork *)
(*               taken one assignment of p->state at a time                *)
(*   SpecKalloc - kalloc and kfree on byte addresses                       *)
(*   SpecVmfault - one process of SpecVm, started with memory plentiful or *)
(*               nearly used up                                            *)
(*   SpecNamex - processes that resolve paths with namex                   *)
(*   SpecVirtioFair - processes that call virtio_disk_rw, the device and   *)
(*     its interrupt, under fair scheduling                                *)
(***************************************************************************)
EXTENDS Integers, Sequences, FiniteSets, TLC

(***************************************************************************)
(* Sizes.  The kernel's values live in kernel/param.h; the model scales    *)
(* them down.                                                              *)
(***************************************************************************)
NBUF == 3
\* number of log data blocks the header can name
LOGBLOCKS == 2
\* distinct blocks one FS operation may log
MAXOPBLOCKS == 1
\* home (file system) blocks of the modelled disk
NHOME == 2
\* largest block content a writer stores
MaxVal == 2
\* processes using the buffer cache in SpecBio
NBIOPROC == 2
\* extra blocks (beyond NBUF) requested in SpecBio, so that misses on a full cache occur
NBIOEXTRA == 1
\* buffers pinned at one time in SpecBio
MaxPins == 2
\* buffers one process holds at one time in SpecBio
MaxHeld == 1
\* the count of served bread calls per slot saturates here
MaxServed == 1
\* processes issuing FS operations in SpecLog
NLOGPROC == 2
\* log_write calls in one run of SpecLog
MaxWrites == 3
\* crashes in one run of SpecLog
MaxCrashes == 2
\* slots of the in-memory inode table
NINODE == 2
\* inode numbers on the disk
NINUM == 3
\* processes using the inode table in SpecInode
NINOPROC == 2
\* references to inodes one process holds at one time in SpecInode
MaxIrefs == 2
\* slots of the process table
NPROC == 3
\* harts
NCPU == 2
\* the last pid allocpid hands out in SpecProc
MaxPid == 3
\* the largest exit status
MaxStatus == 1
\* entries of one page-table page (512 in the kernel)
PTES == 4
\* physical frames the allocator manages
NFRAME == 38
\* slots of the process table in SpecVm
NVMPROC == 2
\* pages of user stack kexec allocates (kernel/param.h)
USERSTACK == 1
\* pages of the one loadable segment of the larger of two executables
MaxSeg == 3
\* pages one growproc or sbrk call asks for
MaxGrow == 2
\* the highest page user code touches
MaxVa == 3
\* calls in one run of SpecVm
MaxVmOps == 4
\* bits of a uint (32 in the kernel)
WordBits == 8
\* bytes of a block (kernel/fs.h: 1024)
BSIZE == 2
\* direct block addresses of an inode (kernel/fs.h: 12)
NDIRECT == 1
\* block addresses in the indirect block (kernel/fs.h: BSIZE / sizeof(uint))
NINDIRECT == 2
\* the longest write SpecWritei issues, wrapping lengths apart
MaxWriteLen == 3
NSPINHART == 2
NLOCK == 2
MaxNoff == 3
NBOPPROC == 3
NSCHEDHART == 2
NSCHEDPROC == 3
\* SpecKalloc: page size in bytes, the first address after the kernel image
\* (not page-aligned) and the end of physical memory
PGSIZE == 4
KernelEnd == 6
PHYSTOP == 24
NUM == 8
NVPROC == 3

ROOTDEV == 1
\* first block of the log region (boot block 0, super block 1)
LOGSTART == 2

Max2(a, b) == IF a >= b THEN a ELSE b
\* the first index a loop over a table meets in S (0: none)
MinOf(S) == IF S = {} THEN 0 ELSE CHOOSE k \in S : \A m \in S : k <= m

----------------------------------------------------------------------------
(***************************************************************************)
(* The disk and the buffer cache (kernel/bio.c).                           *)
(***************************************************************************)
VARIABLES
  disk,      \* disk[b]: contents of block b
  buf,       \* bcache.buf: slot -> [dev, blockno, valid, refcnt, data, lk]
  lru,       \* the list through head.next: slots, most recently used first
  panicked   \* "" or the message of the panic that halted the kernel

\* SpecBio: the callers of the buffer cache
VARIABLES
  bproc,   \* process -> [pc, slot, blk, held]
  pins,    \* slot -> bpin calls not yet matched by bunpin
  nread,   \* slot -> disk reads issued since the slot was bound to its block
  served   \* slot -> bread calls that returned since the slot was bound (saturating)

\* SpecLog: the log, its callers, crashes and recovery
VARIABLES
  log,         \* struct log
  lproc,       \* process -> [pc, step, tail, mine]
  boot,        \* "run", or where recover_from_log stands
  rtail,       \* tail of install_trans(1)
  nwrites,     \* log_write calls so far
  ncrash,      \* crashes so far
  gPre,        \* home blocks on disk when the current transaction began
  gPost,       \* gPre overlaid with each staged block's data at log_write time
  gStaged,     \* home blocks staged in the current transaction
  gAbsorbed,   \* staged blocks whose later log_write saw other data than the one before
  gCommitted,  \* the header write with n > 0 of the current transaction completed
  gCrashMix,   \* a crash found some but not all staged blocks installed
  gOnce,       \* <<disk>> at the first completion of install_trans since that header write
  gInstalls    \* completions of install_trans since that header write (saturating)

\* SpecInode: the inode table, its users, the on-disk inodes
VARIABLES
  itable,   \* itable.inode: slot -> [dev, inum, ref, valid, type, nlink, lk]
  iproc,    \* process -> [pc, slot, refs]
  dinode    \* inum -> [type, nlink]: the inode blocks of the disk

\* SpecProc: the process table, the harts, the spin locks and one sleep lock
VARIABLES
  proc,         \* proc[]: slot -> [state, chan, killed, xstate, pid, parent, kstack, kpagetable]
  kctx,         \* slot -> where the slot's kernel thread stands: [pc, i, j, ret, ...]
  cpus,         \* cpus[]: hart -> [proc, idx]; idx is p of the scheduler's loop
  plock,        \* slot -> the hart holding p->lock, or 0
  wait_lock,    \* the hart holding wait_lock, or 0
  sl,           \* a sleep lock: [locked, pid, lk]; lk is the hart holding its spin lock
  nextpid,
  gForked,      \* kfork calls that returned a pid
  gReaped,      \* kwait calls that returned a pid
  gReparented,  \* reparent gave a child to initproc
  gWait         \* the last kwait that returned a pid: [pid, status], status as copied out

\* SpecVm: the frame allocator, the page tables and the processes' images
VARIABLES
  kmem,       \* kmem.freelist: the free frames, head first
  page_ref,   \* page_ref.ref_arr: frame -> reference count
  pages,      \* frame -> the entries of the page-table page in that frame
  vproc,      \* proc[]: slot -> [used, sz, pagetable, kpagetable, trapframe, ...]
  vmlast      \* the last call: [op, p, arg, ret, n]; n counts the calls

\* SpecWritei: one inode under writei
VARIABLES
  winode,   \* the inode: [size, addrs, ind]; addrs the logical blocks that have a block
  wlast     \* the last writei: its arguments, what it found, wrote and returned

\* SpecSpin: harts that acquire and release spin locks
VARIABLES
  spin,   \* lock -> [locked, cpu]: struct spinlock (cpu 0: no hart)
  scpu    \* hart -> [pc, lk, noff, intena, intr, npush, held]: struct cpu, the
          \* hart's interrupt enable bit, where it stands in acquire/release

\* SpecBeginOp: processes that call begin_op, log_write and end_op
VARIABLES
  bop,    \* [outstanding, committing, n]: log.outstanding, log.committing, log.lh.n
  bopc    \* process -> [pc, wrote]: where it stands in begin_op/end_op and how
          \* many new blocks its operation has logged

\* SpecSched: harts in scheduler() and processes in yield, sleep, kexit, sched
VARIABLES
  sh,      \* hart -> [pc, idx, noff, intena, intr, proc]: struct cpu, the
           \* hart's interrupt enable bit and where its scheduler stands
  sp,      \* process -> [state, pc, ret, from, saved, exiting]: p->state,
           \* where its kernel thread stands, sched's local intena
  splock,  \* process -> the hart that holds p->lock (0: free)
  sclk     \* the hart that holds the other spin lock in play (wait_lock, or
           \* the lock passed to sleep; 0: free)

\* SpecKalloc: kalloc.c on byte addresses
VARIABLES
  kheap,   \* [freelist, ref_arr, mem]: kmem.freelist as the sequence of its
           \* frames' addresses, page_ref.ref_arr, and per frame the byte
           \* every byte of it was last set to
  klast    \* [op, pa, ret]: the last call, its argument and what it returned
\* SpecVirtio: processes that call virtio_disk_rw, the device, its interrupt
VARIABLES
  vdisk,  \* [free, desc, info, avail, used]: disk.free[], disk.desc[] (the
          \* NEXT flag and next), disk.info[] (b, status), the avail-ring
          \* entries the device has not taken yet, the used-ring entries
          \* between disk.used_idx and disk.used->idx
  vbuf,   \* buffer -> b->disk (process p reads or writes buffer p)
  vcaller \* process -> [pc, idx, consumed]: where it stands in
          \* virtio_disk_rw, its idx[3], and whether virtio_disk_intr has
          \* consumed the used-ring entry of its request

cacheVars == <<disk, buf, lru, panicked>>
bioOnly == <<bproc, pins, nread, served>>
logGhosts == <<gPre, gPost, gStaged, gAbsorbed, gCommitted, gCrashMix, gOnce, gInstalls>>
logOnly == <<log, lproc, boot, rtail, nwrites, ncrash, logGhosts>>
inoOnly == <<itable, iproc, dinode>>
procOnly ==
  <<proc, kctx, cpus, plock, wait_lock, sl, nextpid, gForked, gReaped, gReparented, gWait>>
vmOnly == <<kmem, page_ref, pages, vproc, vmlast>>
writeiOnly == <<winode, wlast>>
spinOnly == <<spin, scpu>>
bopOnly == <<bop, bopc>>
schedOnly == <<sh, sp, splock, sclk>>
kallocOnly == <<kheap, klast>>
virtioOnly == <<vdisk, vbuf, vcaller>>
vars == <<cacheVars, bioOnly, logOnly, inoOnly, procOnly, vmOnly, writeiOnly, spinOnly, bopOnly, schedOnly, kallocOnly, virtioOnly>>
\* a specification that takes no step of a group of variables holds them at 0
BioUnused ==
  /\ bproc = 0 /\ pins = 0 /\ nread = 0 /\ served = 0
LogUnused ==
  /\ log = 0 /\ lproc = 0 /\ boot = 0 /\ rtail = 0 /\ nwrites = 0
  /\ ncrash = 0 /\ gPre = 0 /\ gPost = 0 /\ gStaged = 0 /\ gAbsorbed = 0
  /\ gCommitted = 0 /\ gCrashMix = 0 /\ gOnce = 0 /\ gInstalls = 0
InoUnused ==
  /\ itable = 0 /\ iproc = 0 /\ dinode = 0
ProcGroupUnused ==
  /\ proc = 0 /\ kctx = 0 /\ cpus = 0 /\ plock = 0 /\ wait_lock = 0
  /\ sl = 0 /\ nextpid = 0 /\ gForked = 0 /\ gReaped = 0 /\ gReparented = 0
  /\ gWait = 0
VmUnused ==
  /\ kmem = 0 /\ page_ref = 0 /\ pages = 0 /\ vproc = 0 /\ vmlast = 0
WriteiUnused ==
  /\ winode = 0 /\ wlast = 0
SpinUnused ==
  /\ spin = 0 /\ scpu = 0
BopUnused ==
  /\ bop = 0 /\ bopc = 0
SchedUnused ==
  /\ sh = 0 /\ sp = 0 /\ splock = 0 /\ sclk = 0
KallocUnused ==
  /\ kheap = 0 /\ klast = 0
VirtioUnused ==
  /\ vdisk = 0 /\ vbuf = 0 /\ vcaller = 0
\* what the actions of one specification leave alone
nonBio == <<logOnly, inoOnly, procOnly, vmOnly, writeiOnly, spinOnly, bopOnly, schedOnly, kallocOnly, virtioOnly>>
nonLog == <<bioOnly, inoOnly, procOnly, vmOnly, writeiOnly, spinOnly, bopOnly, schedOnly, kallocOnly, virtioOnly>>
nonIno == <<disk, buf, lru, bioOnly, logOnly, procOnly, vmOnly, writeiOnly, spinOnly, bopOnly, schedOnly, kallocOnly, virtioOnly>>
nonProc == <<disk, buf, lru, bioOnly, logOnly, inoOnly, vmOnly, writeiOnly, spinOnly, bopOnly, schedOnly, kallocOnly, virtioOnly>>
nonVm == <<disk, buf, lru, bioOnly, logOnly, inoOnly, procOnly, writeiOnly, spinOnly, bopOnly, schedOnly, kallocOnly, virtioOnly>>
nonWritei == <<disk, buf, lru, bioOnly, logOnly, inoOnly, procOnly, vmOnly, spinOnly, bopOnly, schedOnly, kallocOnly, virtioOnly>>
nonSpin == <<disk, buf, lru, bioOnly, logOnly, inoOnly, procOnly, vmOnly, writeiOnly, bopOnly, schedOnly, kallocOnly, virtioOnly>>
nonBop == <<disk, buf, lru, bioOnly, logOnly, inoOnly, procOnly, vmOnly, writeiOnly, spinOnly, schedOnly, kallocOnly, virtioOnly>>
nonSched == <<disk, buf, lru, bioOnly, logOnly, inoOnly, procOnly, vmOnly, writeiOnly, spinOnly, bopOnly, kallocOnly, virtioOnly>>
nonKalloc == <<disk, buf, lru, bioOnly, logOnly, inoOnly, procOnly, vmOnly, writeiOnly, spinOnly, bopOnly, schedOnly, virtioOnly>>
nonVirtio == <<disk, buf, lru, bioOnly, logOnly, inoOnly, procOnly, vmOnly, writeiOnly, spinOnly, bopOnly, schedOnly, kallocOnly>>

\* Block numbers: the log header at LOGSTART, LOGBLOCKS log data blocks after
\* it, then the home blocks.
LogHeadBlock == LOGSTART
HomeBlocks == (LOGSTART + LOGBLOCKS + 1)..(LOGSTART + LOGBLOCKS + NHOME)
AllBlocks == 0..(LOGSTART + LOGBLOCKS + Max2(NHOME, NBUF + NBIOEXTRA))

Slots == 1..NBUF

\* A block's bytes.  Cast to struct logheader they give n and block[];
\* v stands for the rest of the block.
NoBlocks == [i \in 1..LOGBLOCKS |-> 0]
Blk(v) == [n |-> 0, block |-> NoBlocks, v |-> v]

\* binit: every buffer is pushed at the head, so buf[NBUF-1] ends up first.
BinitLru == [i \in 1..NBUF |-> NBUF + 1 - i]
BinitBuf ==
  [s \in Slots |-> [dev |-> 0, blockno |-> 0, valid |-> FALSE, refcnt |-> 0,
                    data |-> Blk(0), lk |-> 0]]

\* (mutant: a lookup that only matches buffers whose data is valid)
BgetHitMutant(B, L, dev, blk) ==
  LET idx == {i \in 1..Len(L) : B[L[i]].dev = dev /\ B[L[i]].blockno = blk
                                /\ B[L[i]].valid}
  IN IF idx = {} THEN 0 ELSE L[CHOOSE i \in idx : \A j \in idx : i <= j]
\* bget, first loop: the first buffer from head.next whose (dev, blockno) match.
BgetHit(B, L, dev, blk) ==
  LET idx == {i \in 1..Len(L) : B[L[i]].dev = dev /\ B[L[i]].blockno = blk}
  IN IF idx = {} THEN 0 ELSE L[CHOOSE i \in idx : \A j \in idx : i <= j]

\* (mutant: a second loop that takes the buffer at head.prev whatever its refcnt)
BgetVictimMutant(B, L) == L[Len(L)]
\* bget, second loop: the first buffer from head.prev with refcnt == 0.
BgetVictim(B, L) ==
  LET idx == {i \in 1..Len(L) : B[L[i]].refcnt = 0}
  IN IF idx = {} THEN 0 ELSE L[CHOOSE i \in idx : \A j \in idx : i >= j]

\* bget up to release(&bcache.lock): the slot, whether it was recycled, and
\* the new table; slot 0 is panic("bget: no buffers").
Bget(B, L, dev, blk) ==
  LET h == BgetHit(B, L, dev, blk)
      v == BgetVictim(B, L)
  IN IF h # 0
     THEN [slot |-> h, recycled |-> FALSE,
           buf |-> [B EXCEPT ![h].refcnt = @ + 1]]
     ELSE IF v # 0
     THEN [slot |-> v, recycled |-> TRUE,
           buf |-> [B EXCEPT ![v].dev = dev, ![v].blockno = blk,
                             ![v].valid = FALSE, ![v].refcnt = 1]]
     ELSE [slot |-> 0, recycled |-> FALSE, buf |-> B]

\* virtio_disk_rw(b, 0): the device fills b->data from the block.
DiskRead(B, D, s) == [B EXCEPT ![s].data = D[B[s].blockno]]
\* virtio_disk_rw(b, 1): the device stores b->data into the block.
DiskWrite(B, D, s) == [D EXCEPT ![B[s].blockno] = B[s].data]

\* (mutant: bread that reads the block but forgets b->valid = 1)
BreadFillMutant(B, D, s) ==
  IF B[s].valid THEN B ELSE DiskRead(B, D, s)
\* bread after bget returned slot s locked: read the block unless valid.
BreadFill(B, D, s) ==
  IF B[s].valid THEN B ELSE [DiskRead(B, D, s) EXCEPT ![s].valid = TRUE]

\* brelse under bcache.lock: drop the reference; at zero move to head.next.
MoveToFront(L, s) == <<s>> \o SelectSeq(L, LAMBDA x : x # s)
\* (mutant: brelse that forgets b->refcnt--)
BrelseBufMutant(B, s) == B
BrelseBuf(B, s) == [B EXCEPT ![s].refcnt = @ - 1]
\* (mutant: brelse that moves the buffer to the head whatever its refcnt)
BrelseLruMutant(B, L, s) == MoveToFront(L, s)
BrelseLru(B, L, s) == IF B[s].refcnt = 1 THEN MoveToFront(L, s) ELSE L

\* bpin / bunpin
Bpin(B, s) == [B EXCEPT ![s].refcnt = @ + 1]
Bunpin(B, s) == [B EXCEPT ![s].refcnt = @ - 1]

----------------------------------------------------------------------------
(***************************************************************************)
(* Buffer-cache calls made by one kernel thread between two points where   *)
(* it can be preempted.  A cache state c is [buf, lru, disk, panic]; a     *)
(* call made after a panic changes nothing.                                *)
(***************************************************************************)
Cache(B, L, D) == [buf |-> B, lru |-> L, disk |-> D, panic |-> "", ret |-> 0]

\* F applied to the value of v (v is computed once)
Then(v, F(_)) == CHOOSE r \in {F(x) : x \in {v}} : TRUE

\* bread(dev, blk) by process pid: bget, acquiresleep, read unless valid;
\* ret is the slot of the returned buffer.  The callers below run whole
\* bread ... brelse sequences in one step, so the sleep lock is free; a held
\* one would put the caller to sleep, which these operators do not follow.
Bread(c0, pid, blk) ==
  Then(c0, LAMBDA c :
    IF c.panic # "" THEN c
    ELSE LET g == Bget(c.buf, c.lru, ROOTDEV, blk)
         IN IF g.slot = 0 THEN [c EXCEPT !.panic = "bget: no buffers"]
            ELSE IF g.buf[g.slot].lk # 0 THEN [c EXCEPT !.panic = "acquiresleep blocks"]
            ELSE [c EXCEPT !.buf = BreadFill([g.buf EXCEPT ![g.slot].lk = pid],
                                             c.disk, g.slot),
                           !.ret = g.slot])

\* bwrite(b): panic unless the caller holds b's sleep lock, then write
Bwrite(c0, pid, s) ==
  Then(c0, LAMBDA c :
    IF c.panic # "" THEN c
    ELSE IF c.buf[s].lk # pid THEN [c EXCEPT !.panic = "bwrite"]
    ELSE [c EXCEPT !.disk = DiskWrite(c.buf, c.disk, s)])

\* brelse(b): panic unless held; releasesleep; refcnt--; move to the head at 0
Brelse(c0, pid, s) ==
  Then(c0, LAMBDA c :
    IF c.panic # "" THEN c
    ELSE IF c.buf[s].lk # pid THEN [c EXCEPT !.panic = "brelse"]
    ELSE [c EXCEPT !.buf = BrelseBuf([c.buf EXCEPT ![s].lk = 0], s),
                   !.lru = BrelseLru(c.buf, c.lru, s)])

\* memmove(dst->data, src->data, BSIZE)
Memmove(c0, dst, src) ==
  Then(c0, LAMBDA c :
    IF c.panic # "" THEN c ELSE [c EXCEPT !.buf[dst].data = c.buf[src].data])

----------------------------------------------------------------------------
(***************************************************************************)
(* The log (kernel/log.c).  lg is struct log: outstanding, committing and  *)
(* the in-memory header lh (n, block[]).                                   *)
(***************************************************************************)
LogZero == [outstanding |-> 0, committing |-> 0, n |-> 0, block |-> NoBlocks]

\* the header block's bytes after write_head copied lh into them
HeadBytes(old, lg) ==
  [old EXCEPT !.n = lg.n,
              !.block = [i \in 1..LOGBLOCKS |-> IF i <= lg.n THEN lg.block[i] ELSE @[i]]]

\* write_head: copy lh.n and lh.block[0..n) into the header block, write it
WriteHead(c0, lg, pid) ==
  Then(Bread(c0, pid, LogHeadBlock), LAMBDA c :
    IF c.panic # "" THEN c
    ELSE Brelse(Bwrite([c EXCEPT !.buf[c.ret].data = HeadBytes(@, lg)],
                       pid, c.ret),
                pid, c.ret))

\* read_head: the header block's n and block[0..n) into lh; the log and the cache
ReadHead(c0, lg, pid) ==
  Then(Bread(c0, pid, LogHeadBlock), LAMBDA c :
    IF c.panic # "" THEN [log |-> lg, cache |-> c]
    ELSE [log |-> [lg EXCEPT !.n = c.buf[c.ret].data.n,
                             !.block = [i \in 1..LOGBLOCKS |->
                                          IF i <= c.buf[c.ret].data.n
                                          THEN c.buf[c.ret].data.block[i] ELSE @[i]]],
          cache |-> Brelse(c, pid, c.ret)])

\* (mutant: write_log that copies to the log buffer and never writes it to disk)
WriteLogStepMutant(c0, lg, tail, pid) ==
  Then(Bread(c0, pid, LOGSTART + tail + 1), LAMBDA to :
    Then(Bread(to, pid, lg.block[tail + 1]), LAMBDA from :
      Brelse(Brelse(Memmove(from, to.ret, from.ret), pid, from.ret), pid, to.ret)))
\* write_log, one iteration (tail counts from 0): cache block -> log block
WriteLogStep(c0, lg, tail, pid) ==
  Then(Bread(c0, pid, LOGSTART + tail + 1), LAMBDA to :
    Then(Bread(to, pid, lg.block[tail + 1]), LAMBDA from :
      Brelse(Brelse(Bwrite(Memmove(from, to.ret, from.ret), pid, to.ret),
                    pid, from.ret),
             pid, to.ret)))

\* bunpin(b) in cache state c
BunpinIn(c0, s) ==
  Then(c0, LAMBDA c : IF c.panic # "" THEN c ELSE [c EXCEPT !.buf = Bunpin(c.buf, s)])

\* (mutant: install_trans that never unpins)
InstallStepNoUnpin(c0, lg, tail, recovering, pid) ==
  Then(Bread(c0, pid, LOGSTART + tail + 1), LAMBDA lbuf :
    Then(Bread(lbuf, pid, lg.block[tail + 1]), LAMBDA dbuf :
      Then(Bwrite(Memmove(dbuf, dbuf.ret, lbuf.ret), pid, dbuf.ret), LAMBDA c :
        Brelse(Brelse(c, pid, lbuf.ret), pid, dbuf.ret))))
\* install_trans, one iteration: log block -> home block, unpin unless recovering
InstallStep(c0, lg, tail, recovering, pid) ==
  Then(Bread(c0, pid, LOGSTART + tail + 1), LAMBDA lbuf :
    Then(Bread(lbuf, pid, lg.block[tail + 1]), LAMBDA dbuf :
      Then(Bwrite(Memmove(dbuf, dbuf.ret, lbuf.ret), pid, dbuf.ret), LAMBDA c :
        Brelse(Brelse(IF recovering THEN c ELSE BunpinIn(c, dbuf.ret), pid, lbuf.ret),
               pid, dbuf.ret))))

\* (mutant: log_write that records the block and forgets bpin)
LogWriteMutant(lg, B, s) ==
  LET idx == {i \in 1..lg.n : lg.block[i] = B[s].blockno}
      i == IF idx = {} THEN lg.n + 1 ELSE CHOOSE k \in idx : \A j \in idx : k <= j
  IN IF lg.n >= LOGBLOCKS THEN [log |-> lg, buf |-> B, panic |-> "too big a transaction"]
     ELSE IF lg.outstanding < 1
     THEN [log |-> lg, buf |-> B, panic |-> "log_write outside of trans"]
     ELSE [log |-> [lg EXCEPT !.block[i] = B[s].blockno,
                              !.n = IF i = lg.n + 1 THEN @ + 1 ELSE @],
           buf |-> B, panic |-> ""]
\* (mutant: log_write that appends without looking for the block)
LogWriteNoAbsorb(lg, B, s) ==
  IF lg.n >= LOGBLOCKS THEN [log |-> lg, buf |-> B, panic |-> "too big a transaction"]
  ELSE IF lg.outstanding < 1
  THEN [log |-> lg, buf |-> B, panic |-> "log_write outside of trans"]
  ELSE [log |-> [lg EXCEPT !.block[lg.n + 1] = B[s].blockno, !.n = @ + 1],
        buf |-> Bpin(B, s), panic |-> ""]
\* log_write(b) with b in slot s: absorb, or append and pin
LogWrite(lg, B, s) ==
  LET idx == {i \in 1..lg.n : lg.block[i] = B[s].blockno}
      i == IF idx = {} THEN lg.n + 1 ELSE CHOOSE k \in idx : \A j \in idx : k <= j
  IN IF lg.n >= LOGBLOCKS THEN [log |-> lg, buf |-> B, panic |-> "too big a transaction"]
     ELSE IF lg.outstanding < 1
     THEN [log |-> lg, buf |-> B, panic |-> "log_write outside of trans"]
     ELSE [log |-> [lg EXCEPT !.block[i] = B[s].blockno,
                              !.n = IF i = lg.n + 1 THEN @ + 1 ELSE @],
           buf |-> IF i = lg.n + 1 THEN Bpin(B, s) ELSE B, panic |-> ""]

\* the caller's part of an FS system call on one block:
\*   bp = bread(dev, b); bp->data = v; log_write(bp); brelse(bp)
\* the log, the cache, and the data log_write saw
WriteBlock(c0, lg, pid, b, v) ==
  Then(Bread(c0, pid, b), LAMBDA c1 :
    IF c1.panic # "" THEN [log |-> lg, cache |-> c1, data |-> Blk(0)]
    ELSE Then([c1 EXCEPT !.buf[c1.ret].data.v = v], LAMBDA c2 :
      Then(LogWrite(lg, c2.buf, c2.ret), LAMBDA lw :
        [log |-> lw.log,
         cache |-> Brelse([c2 EXCEPT !.buf = lw.buf, !.panic = lw.panic], pid, c2.ret),
         data |-> c2.buf[c2.ret].data])))

\* (mutant: begin_op that does not look at log.committing)
BeginOpAdmitsMutant(lg) == ~(lg.n + (lg.outstanding + 1) * MAXOPBLOCKS > LOGBLOCKS)
\* begin_op: may the caller proceed (it sleeps otherwise)?
BeginOpAdmits(lg) ==
  /\ lg.committing = 0
  /\ ~(lg.n + (lg.outstanding + 1) * MAXOPBLOCKS > LOGBLOCKS)

\* (mutant: a commit that writes the header before the log blocks)
CommitOrderMutant == <<"write_head", "write_log", "install", "clear">>
\* (mutant: a commit that installs before it writes the header)
CommitOrderInstallFirst == <<"write_log", "install", "write_head", "clear">>
\* commit: the order of its four steps
CommitOrder == <<"write_log", "write_head", "install", "clear">>

----------------------------------------------------------------------------
(***************************************************************************)
(* SpecBio: NBIOPROC processes call bread, bpin, bunpin and brelse.  One   *)
(* action per critical section: bget under bcache.lock, acquiresleep,      *)
(* the read in bread, releasesleep, and brelse's part under bcache.lock.   *)
(***************************************************************************)

BioProcs == 1..NBIOPROC
BioBlocks == (LOGSTART + LOGBLOCKS + 1)..(LOGSTART + LOGBLOCKS + NBUF + NBIOEXTRA)


BioIdle == [pc |-> "idle", slot |-> 0, blk |-> 0, held |-> {}]
ZeroSlots == [s \in Slots |-> 0]

\* bread -> bget(dev, blockno), through release(&bcache.lock)
BioBget(p, blk) ==
  /\ panicked = ""
  /\ bproc[p].pc = "idle"
  /\ Cardinality(bproc[p].held) < MaxHeld
  /\ \A s \in bproc[p].held : buf[s].blockno # blk
  /\ LET g == Bget(buf, lru, ROOTDEV, blk)
     IN IF g.slot = 0
        THEN /\ panicked' = "bget: no buffers"
             /\ bproc' = [bproc EXCEPT ![p].pc = "panic", ![p].blk = blk]
             /\ UNCHANGED <<buf, nread, served>>
        ELSE /\ buf' = g.buf
             /\ bproc' = [bproc EXCEPT ![p].pc = "lock", ![p].slot = g.slot,
                                       ![p].blk = blk]
             /\ nread' = IF g.recycled THEN [nread EXCEPT ![g.slot] = 0] ELSE nread
             /\ served' = IF g.recycled THEN [served EXCEPT ![g.slot] = 0] ELSE served
             /\ UNCHANGED panicked
  /\ UNCHANGED <<disk, lru, pins>>
  /\ UNCHANGED nonBio

\* bget: acquiresleep(&b->lock) returns once the lock is free
BioAcquireSleep(p) ==
  /\ panicked = ""
  /\ bproc[p].pc = "lock"
  /\ buf[bproc[p].slot].lk = 0
  /\ buf' = [buf EXCEPT ![bproc[p].slot].lk = p]
  /\ bproc' = [bproc EXCEPT ![p].pc = "read"]
  /\ UNCHANGED <<disk, lru, panicked, pins, nread, served>>
  /\ UNCHANGED nonBio

\* bread: if(!b->valid) virtio_disk_rw(b, 0); return b
BioBreadFill(p) ==
  /\ panicked = ""
  /\ bproc[p].pc = "read"
  /\ LET s == bproc[p].slot
     IN /\ buf' = BreadFill(buf, disk, s)
        /\ nread' = IF buf[s].valid THEN nread ELSE [nread EXCEPT ![s] = @ + 1]
        /\ served' = [served EXCEPT ![s] = IF @ < MaxServed THEN @ + 1 ELSE @]
        /\ bproc' = [bproc EXCEPT ![p].pc = "idle", ![p].slot = 0, ![p].blk = 0,
                                  ![p].held = @ \cup {s}]
  /\ UNCHANGED <<disk, lru, panicked, pins>>
  /\ UNCHANGED nonBio

\* bpin(b) by a holder of b (log_write)
BioBpin(p, s) ==
  /\ panicked = ""
  /\ bproc[p].pc = "idle"
  /\ s \in bproc[p].held
  /\ pins[s] = 0
  /\ Cardinality({t \in Slots : pins[t] > 0}) < MaxPins
  /\ buf' = Bpin(buf, s)
  /\ pins' = [pins EXCEPT ![s] = @ + 1]
  /\ UNCHANGED <<disk, lru, panicked, bproc, nread, served>>
  /\ UNCHANGED nonBio

\* bunpin(b) by a holder of a pinned b (install_trans)
BioBunpin(p, s) ==
  /\ panicked = ""
  /\ bproc[p].pc = "idle"
  /\ s \in bproc[p].held
  /\ pins[s] > 0
  /\ buf' = Bunpin(buf, s)
  /\ pins' = [pins EXCEPT ![s] = @ - 1]
  /\ UNCHANGED <<disk, lru, panicked, bproc, nread, served>>
  /\ UNCHANGED nonBio

\* brelse: holdingsleep check, releasesleep(&b->lock)
BioBrelseUnlock(p, s) ==
  /\ panicked = ""
  /\ bproc[p].pc = "idle"
  /\ s \in bproc[p].held
  /\ IF buf[s].lk = p
     THEN /\ buf' = [buf EXCEPT ![s].lk = 0]
          /\ bproc' = [bproc EXCEPT ![p].pc = "rel", ![p].slot = s,
                                    ![p].held = @ \ {s}]
          /\ UNCHANGED panicked
     ELSE /\ panicked' = "brelse"
          /\ UNCHANGED <<buf, bproc>>
  /\ UNCHANGED <<disk, lru, pins, nread, served>>
  /\ UNCHANGED nonBio

\* brelse: acquire(&bcache.lock); b->refcnt--; move to the head at zero
BioBrelseDec(p) ==
  /\ panicked = ""
  /\ bproc[p].pc = "rel"
  /\ LET s == bproc[p].slot
     IN /\ buf' = BrelseBuf(buf, s)
        /\ lru' = BrelseLru(buf, lru, s)
  /\ bproc' = [bproc EXCEPT ![p].pc = "idle", ![p].slot = 0, ![p].blk = 0]
  /\ UNCHANGED <<disk, panicked, pins, nread, served>>
  /\ UNCHANGED nonBio

BioDiskInit == [b \in AllBlocks |-> Blk(b % (MaxVal + 1))]

BioNext ==
  \/ \E p \in BioProcs, blk \in BioBlocks : BioBget(p, blk)
  \/ \E p \in BioProcs : BioAcquireSleep(p)
  \/ \E p \in BioProcs : BioBreadFill(p)
  \/ \E p \in BioProcs, s \in Slots : BioBpin(p, s)
  \/ \E p \in BioProcs, s \in Slots : BioBunpin(p, s)
  \/ \E p \in BioProcs, s \in Slots : BioBrelseUnlock(p, s)
  \/ \E p \in BioProcs : BioBrelseDec(p)


BioInitVars ==
  /\ bproc = [p \in BioProcs |-> BioIdle]
  /\ pins = ZeroSlots
  /\ nread = ZeroSlots
  /\ served = ZeroSlots

CacheInitVars ==
  /\ buf = BinitBuf
  /\ lru = BinitLru
  /\ panicked = ""

\* process p has a reference to slot s: between bget and brelse's refcnt--
BioBound(p, s) ==
  \/ s \in bproc[p].held
  \/ bproc[p].pc \in {"lock", "read", "rel"} /\ bproc[p].slot = s

BioAllBusy == \A s \in Slots : buf[s].refcnt > 0

\* C4: buffer-cache uniqueness. In every reachable state of SpecBio, no two
\* buffer slots that are in use (refcnt > 0) hold the same (dev, blockno).
C4_BcacheUnique ==
  \A s, t \in Slots :
    (s # t /\ buf[s].refcnt > 0 /\ buf[t].refcnt > 0)
      => ~(buf[s].dev = buf[t].dev /\ buf[s].blockno = buf[t].blockno)

\* every slot in use: one shared by two processes, the others pinned
C4_Witness ==
  /\ BioAllBusy
  /\ \E s \in Slots : pins[s] > 0
  /\ \E s \in Slots : \E p, q \in BioProcs : p # q /\ BioBound(p, s) /\ BioBound(q, s)

\* C5: concurrent bread of one block. While a slot stays bound to a block,
\* at most one disk read is issued for it and every served caller finds it
\* read; processes inside bread of the same block are bound to the same slot;
\* no two processes hold a slot's sleep lock together; every holder sees
\* valid data equal to the block on disk.
C5_BreadOnce ==
  /\ \A s \in Slots : nread[s] <= 1 /\ (served[s] >= 1 => nread[s] = 1)
  /\ \A p, q \in BioProcs :
       (p # q /\ bproc[p].pc \in {"lock", "read"} /\ bproc[q].pc \in {"lock", "read"}
          /\ bproc[p].blk = bproc[q].blk) => bproc[p].slot = bproc[q].slot
  /\ \A p, q \in BioProcs : \A s \in bproc[p].held :
       /\ (bproc[q].pc \in {"lock", "read"} /\ bproc[q].blk = buf[s].blockno)
            => bproc[q].slot = s
       /\ p # q => ~(s \in bproc[q].held \/ (bproc[q].pc = "read" /\ bproc[q].slot = s))
  /\ \A p \in BioProcs : \A s \in bproc[p].held :
       buf[s].lk = p /\ buf[s].valid /\ buf[s].data = disk[buf[s].blockno]

\* two overlapping breads of one block: q holds the slot after p, which has
\* released the sleep lock but not yet dropped its reference; one disk read
C5_Witness ==
  \E s \in Slots : \E p, q \in BioProcs :
    /\ p # q
    /\ bproc[p].pc = "rel" /\ bproc[p].slot = s
    /\ s \in bproc[q].held
    /\ served[s] >= 1 /\ nread[s] = 1 /\ pins[s] = 0

\* references process p has on slot s: one per bread it has not yet released
BioRefs(p, s) ==
  (IF s \in bproc[p].held THEN 1 ELSE 0)
  + (IF bproc[p].pc \in {"lock", "read", "rel"} /\ bproc[p].slot = s THEN 1 ELSE 0)

RECURSIVE BioRefSum(_, _)
BioRefSum(n, s) == IF n = 0 THEN 0 ELSE BioRefs(n, s) + BioRefSum(n - 1, s)

BioRefBalance ==
  \A s \in Slots : buf[s].refcnt = BioRefSum(NBIOPROC, s) + pins[s]

BioPanicOnlyFull ==
  /\ panicked \in {"", "bget: no buffers"}
  /\ panicked # "" => BioAllBusy

BioPanicWhenFull ==
  \A p \in BioProcs :
    (/\ bproc[p].pc = "idle" /\ bproc'[p].pc \in {"lock", "panic"}
     /\ BioAllBusy
     /\ BgetHit(buf, lru, ROOTDEV, bproc'[p].blk) = 0)
      => panicked' = "bget: no buffers"

\* C6: bread/brelse balance. Every slot's refcnt equals the number of
\* processes between their bget and the end of their brelse on it plus its
\* unmatched pins (so a bread with its brelse leaves refcnt as it was); the
\* kernel panics with "bget: no buffers" only when every buffer has
\* refcnt > 0, and a bget that misses in such a state always panics.
C6_BreadBrelseBalance ==
  /\ [](BioRefBalance /\ BioPanicOnlyFull)
  /\ [][BioPanicWhenFull]_vars

\* breads without brelse filled the cache and the next missing bget panicked
C6_Witness ==
  /\ panicked = "bget: no buffers"
  /\ \E p \in BioProcs : bproc[p].held # {}


----------------------------------------------------------------------------
(***************************************************************************)
(* SpecLog: NLOGPROC processes run FS operations (begin_op, log_write of   *)
(* home blocks, end_op); the last end_op commits.  The machine may crash   *)
(* between any two disk writes; after a crash memory is gone and           *)
(* initlog -> recover_from_log runs.  Every action holds exactly the code  *)
(* between two disk writes or two acquisitions of log.lock.                *)
(***************************************************************************)

LogProcs == 1..NLOGPROC
Values == 1..MaxVal


LogIdle == [pc |-> "idle", step |-> 0, tail |-> 0, mine |-> {}]
HomeDisk(D) == [b \in HomeBlocks |-> D[b]]
CommitReturned == Len(CommitOrder) + 1

\* the kernel halts: panic() never returns
LogHalt(msg) ==
  /\ panicked' = msg
  /\ UNCHANGED <<disk, buf, lru, log, lproc, boot, rtail, nwrites, ncrash>>
  /\ UNCHANGED logGhosts

\* the cache state c becomes the state of the machine
LogStore(c) ==
  /\ buf' = c.buf
  /\ lru' = c.lru
  /\ disk' = c.disk
  /\ UNCHANGED panicked

\* begin_op: admitted (the caller sleeps on &log otherwise)
LogBeginOp(p) ==
  /\ panicked = "" /\ boot = "run"
  /\ lproc[p].pc = "idle"
  /\ BeginOpAdmits(log)
  /\ log' = [log EXCEPT !.outstanding = @ + 1]
  /\ lproc' = [lproc EXCEPT ![p].pc = "inop", ![p].mine = {}]
  /\ UNCHANGED <<disk, buf, lru, panicked, boot, rtail, nwrites, ncrash>>
  /\ UNCHANGED logGhosts
  /\ UNCHANGED nonLog

\* bp = bread(dev, b); bp->data = v; log_write(bp); brelse(bp)
LogWriteOp(p, b, v) ==
  /\ panicked = "" /\ boot = "run"
  /\ lproc[p].pc = "inop"
  /\ b \in lproc[p].mine \/ Cardinality(lproc[p].mine) < MAXOPBLOCKS
  /\ nwrites < MaxWrites
  /\ \E w \in {WriteBlock(Cache(buf, lru, disk), log, p, b, v)} :
        IF w.cache.panic # "" THEN LogHalt(w.cache.panic)
        ELSE /\ LogStore(w.cache)
             /\ log' = w.log
             /\ lproc' = [lproc EXCEPT ![p].mine = @ \cup {b}]
             /\ nwrites' = nwrites + 1
             /\ gPost' = [gPost EXCEPT ![b] = w.data]
             /\ gStaged' = gStaged \cup {b}
             /\ gAbsorbed' = IF b \in gStaged /\ gPost[b] # w.data
                             THEN gAbsorbed \cup {b} ELSE gAbsorbed
             /\ UNCHANGED <<boot, rtail, ncrash, gPre, gCommitted, gCrashMix,
                            gOnce, gInstalls>>
  /\ UNCHANGED nonLog

\* bp = bread(dev, b); brelse(bp): an operation reads a block
LogReadOp(p, b) ==
  /\ panicked = "" /\ boot = "run"
  /\ lproc[p].pc = "inop"
  /\ \E c \in {Then(Bread(Cache(buf, lru, disk), p, b),
                    LAMBDA c1 : Brelse(c1, p, c1.ret))} :
        IF c.panic # "" THEN LogHalt(c.panic)
        ELSE /\ LogStore(c)
             /\ UNCHANGED <<log, lproc, boot, rtail, nwrites, ncrash>>
             /\ UNCHANGED logGhosts
  /\ UNCHANGED nonLog

\* end_op up to release(&log.lock)
LogEndOp(p) ==
  /\ panicked = "" /\ boot = "run"
  /\ lproc[p].pc = "inop"
  /\ IF log.committing # 0 THEN LogHalt("log.committing")
     ELSE /\ IF log.outstanding = 1
             THEN /\ log' = [log EXCEPT !.outstanding = 0, !.committing = 1]
                  /\ lproc' = [lproc EXCEPT ![p].pc = "commit", ![p].tail = 0,
                                 ![p].step = IF log.n > 0 THEN 1 ELSE CommitReturned]
             ELSE /\ log' = [log EXCEPT !.outstanding = @ - 1]
                  /\ lproc' = [lproc EXCEPT ![p] = LogIdle]
          /\ UNCHANGED <<disk, buf, lru, panicked, boot, rtail, nwrites, ncrash>>
          /\ UNCHANGED logGhosts
  /\ UNCHANGED nonLog

LogInCommit(p, kind) ==
  /\ panicked = "" /\ boot = "run"
  /\ lproc[p].pc = "commit"
  /\ lproc[p].step \in 1..Len(CommitOrder)
  /\ CommitOrder[lproc[p].step] = kind

\* the loop of write_log or install_trans advances, or the step is over
LogLoopNext(p) ==
  IF lproc[p].tail + 1 < log.n
  THEN [lproc EXCEPT ![p].tail = @ + 1]
  ELSE [lproc EXCEPT ![p].tail = 0, ![p].step = @ + 1]

\* commit: write_log(), one iteration
LogCommitWriteLog(p) ==
  /\ LogInCommit(p, "write_log")
  /\ \E c \in {WriteLogStep(Cache(buf, lru, disk), log, lproc[p].tail, p)} :
        IF c.panic # "" THEN LogHalt(c.panic)
        ELSE /\ LogStore(c)
             /\ lproc' = LogLoopNext(p)
             /\ UNCHANGED <<log, boot, rtail, nwrites, ncrash>>
             /\ UNCHANGED logGhosts
  /\ UNCHANGED nonLog

\* commit: write_head() -- the commit point
LogCommitWriteHead(p) ==
  /\ LogInCommit(p, "write_head")
  /\ \E c \in {WriteHead(Cache(buf, lru, disk), log, p)} :
        IF c.panic # "" THEN LogHalt(c.panic)
        ELSE /\ LogStore(c)
             /\ lproc' = [lproc EXCEPT ![p].step = @ + 1, ![p].tail = 0]
             /\ gCommitted' = TRUE
             /\ UNCHANGED <<log, boot, rtail, nwrites, ncrash, gPre, gPost, gStaged, gAbsorbed,
                            gCrashMix, gOnce, gInstalls>>
  /\ UNCHANGED nonLog

\* install_trans returned while the header on disk still names the transaction
LogInstalled(done, D) ==
  /\ gOnce' = IF done /\ gOnce = <<>> THEN <<D>> ELSE gOnce
  /\ gInstalls' = IF done /\ gInstalls < MaxCrashes + 1 THEN gInstalls + 1 ELSE gInstalls

\* commit: install_trans(0), one iteration
LogCommitInstall(p) ==
  /\ LogInCommit(p, "install")
  /\ \E c \in {InstallStep(Cache(buf, lru, disk), log, lproc[p].tail, FALSE, p)} :
        IF c.panic # "" THEN LogHalt(c.panic)
        ELSE /\ LogStore(c)
             /\ lproc' = LogLoopNext(p)
             /\ LogInstalled(lproc[p].tail + 1 >= log.n, c.disk)
             /\ UNCHANGED <<log, boot, rtail, nwrites, ncrash, gPre, gPost, gStaged, gAbsorbed,
                            gCommitted, gCrashMix>>
  /\ UNCHANGED nonLog

\* commit: log.lh.n = 0; write_head()
LogCommitClear(p) ==
  /\ LogInCommit(p, "clear")
  /\ \E lg \in {[log EXCEPT !.n = 0]} :
     \E c \in {WriteHead(Cache(buf, lru, disk), lg, p)} :
        IF c.panic # "" THEN LogHalt(c.panic)
        ELSE /\ LogStore(c)
             /\ log' = lg
             /\ lproc' = [lproc EXCEPT ![p].step = @ + 1, ![p].tail = 0]
             /\ gOnce' = <<>>
             /\ gInstalls' = 0
             /\ UNCHANGED <<boot, rtail, nwrites, ncrash, gPre, gPost, gStaged, gAbsorbed,
                            gCommitted, gCrashMix>>
  /\ UNCHANGED nonLog

\* a new transaction begins: what is on disk is its pre-state
LogNewTransaction(D) ==
  /\ gPre' = HomeDisk(D)
  /\ gPost' = HomeDisk(D)
  /\ gStaged' = {}
  /\ gAbsorbed' = {}
  /\ gCommitted' = FALSE
  /\ gCrashMix' = FALSE
  /\ gOnce' = <<>>
  /\ gInstalls' = 0

\* end_op after commit(): committing = 0; wakeup(&log)
LogEndOpFinish(p) ==
  /\ panicked = "" /\ boot = "run"
  /\ lproc[p].pc = "commit"
  /\ lproc[p].step = CommitReturned
  /\ log' = [log EXCEPT !.committing = 0]
  /\ lproc' = [lproc EXCEPT ![p] = LogIdle]
  /\ LogNewTransaction(disk)
  /\ UNCHANGED <<disk, buf, lru, panicked, boot, rtail, nwrites, ncrash>>
  /\ UNCHANGED nonLog

\* power fails: memory is lost, the disk stays; the kernel boots into initlog
LogCrash ==
  /\ panicked = ""
  /\ ncrash < MaxCrashes
  /\ ncrash' = ncrash + 1
  /\ buf' = BinitBuf
  /\ lru' = BinitLru
  /\ log' = LogZero
  /\ lproc' = [p \in LogProcs |-> LogIdle]
  /\ boot' = "read_head"
  /\ rtail' = 0
  /\ gCrashMix' = (gCrashMix \/ HomeDisk(disk) \notin {gPre, gPost})
  /\ UNCHANGED <<disk, panicked, nwrites, gPre, gPost, gStaged, gAbsorbed, gCommitted,
                 gOnce, gInstalls>>
  /\ UNCHANGED nonLog

\* recover_from_log: read_head()
LogRecoverReadHead ==
  /\ panicked = "" /\ boot = "read_head"
  /\ \E r \in {ReadHead(Cache(buf, lru, disk), log, 1)} :
        IF r.cache.panic # "" THEN LogHalt(r.cache.panic)
        ELSE /\ LogStore(r.cache)
             /\ log' = r.log
             /\ boot' = IF r.log.n > 0 THEN "install" ELSE "clear"
             /\ rtail' = 0
             /\ UNCHANGED <<lproc, nwrites, ncrash>>
             /\ UNCHANGED logGhosts
  /\ UNCHANGED nonLog

\* recover_from_log: install_trans(1), one iteration
LogRecoverInstall ==
  /\ panicked = "" /\ boot = "install"
  /\ \E c \in {InstallStep(Cache(buf, lru, disk), log, rtail, TRUE, 1)} :
        IF c.panic # "" THEN LogHalt(c.panic)
        ELSE /\ LogStore(c)
             /\ rtail' = IF rtail + 1 >= log.n THEN 0 ELSE rtail + 1
             /\ boot' = IF rtail + 1 >= log.n THEN "clear" ELSE "install"
             /\ LogInstalled(rtail + 1 >= log.n, c.disk)
             /\ UNCHANGED <<log, lproc, nwrites, ncrash, gPre, gPost, gStaged, gAbsorbed,
                            gCommitted, gCrashMix>>
  /\ UNCHANGED nonLog

\* recover_from_log: log.lh.n = 0; write_head()
LogRecoverClear ==
  /\ panicked = "" /\ boot = "clear"
  /\ \E lg \in {[log EXCEPT !.n = 0]} :
     \E c \in {WriteHead(Cache(buf, lru, disk), lg, 1)} :
        IF c.panic # "" THEN LogHalt(c.panic)
        ELSE /\ LogStore(c)
             /\ log' = lg
             /\ boot' = "recovered"
             /\ gOnce' = <<>>
             /\ gInstalls' = 0
             /\ UNCHANGED <<lproc, rtail, nwrites, ncrash, gPre, gPost, gStaged, gAbsorbed,
                            gCommitted, gCrashMix>>
  /\ UNCHANGED nonLog

\* initlog returns: the file system is in use again
LogInitlogReturn ==
  /\ panicked = "" /\ boot = "recovered"
  /\ boot' = "run"
  /\ LogNewTransaction(disk)
  /\ UNCHANGED <<disk, buf, lru, panicked, log, lproc, rtail, nwrites, ncrash>>
  /\ UNCHANGED nonLog

LogNext ==
  \/ \E p \in LogProcs : LogBeginOp(p)
  \/ \E p \in LogProcs, b \in HomeBlocks, v \in Values : LogWriteOp(p, b, v)
  \/ \E p \in LogProcs, b \in HomeBlocks : LogReadOp(p, b)
  \/ \E p \in LogProcs : LogEndOp(p)
  \/ \E p \in LogProcs : LogCommitWriteLog(p)
  \/ \E p \in LogProcs : LogCommitWriteHead(p)
  \/ \E p \in LogProcs : LogCommitInstall(p)
  \/ \E p \in LogProcs : LogCommitClear(p)
  \/ \E p \in LogProcs : LogEndOpFinish(p)
  \/ LogCrash
  \/ LogRecoverReadHead
  \/ LogRecoverInstall
  \/ LogRecoverClear
  \/ LogInitlogReturn

LogDiskInit == [b \in AllBlocks |-> Blk(0)]

LogInitVars ==
  /\ log = LogZero
  /\ lproc = [p \in LogProcs |-> LogIdle]
  /\ boot = "run"
  /\ rtail = 0
  /\ nwrites = 0
  /\ ncrash = 0
  /\ gPre = HomeDisk(LogDiskInit)
  /\ gPost = HomeDisk(LogDiskInit)
  /\ gStaged = {}
  /\ gAbsorbed = {}
  /\ gCommitted = FALSE
  /\ gCrashMix = FALSE
  /\ gOnce = <<>>
  /\ gInstalls = 0

----------------------------------------------------------------------------
(***************************************************************************)
(* Properties of the log.                                                  *)
(***************************************************************************)

\* C1 (log atomicity): whenever recover_from_log has finished after a crash,
\* the home blocks hold the transaction's pre-state if the crash came before
\* the header write with n > 0 completed, and its post-state (every staged
\* block as log_write saw it) if it came after; never a mixture of the two.
C1_LogAtomic ==
  boot = "recovered" =>
    HomeDisk(disk) = IF gCommitted THEN gPost ELSE gPre

\* a crash found one staged block installed and the other not, and recovery
\* completed the transaction
C1_Witness ==
  /\ boot = "recovered"
  /\ gCrashMix
  /\ gCommitted
  /\ Cardinality(gStaged) = 2
  /\ gPost # gPre

\* C2 (idempotence of install_trans): once install_trans has run to
\* completion with the header on disk naming n > 0 blocks, running it again
\* (in part or in full, after any number of crashes) before the header is
\* cleared leaves the disk as the first run left it.
C2_InstallIdempotent ==
  gInstalls >= 1 => disk = gOnce[1]

\* install_trans completed a second time, on two blocks, before the clearing
\* write_head
C2_Witness ==
  /\ gInstalls >= 2
  /\ boot = "clear"
  /\ log.n = 2
  /\ gPost # gPre

\* C3 (commit installs what log_write saw): when commit() has returned, every
\* staged home block holds on disk the buffer data of the (latest) log_write
\* call made for it.
C3_CommitInstallsStaged ==
  \A p \in LogProcs :
    (lproc[p].pc = "commit" /\ lproc[p].step = CommitReturned) =>
      \A b \in gStaged : disk[b] = gPost[b]

\* commit() returned for a transaction of two blocks, one of them absorbed
\* with new data
C3_Witness ==
  /\ \E p \in LogProcs : lproc[p].pc = "commit" /\ lproc[p].step = CommitReturned
  /\ Cardinality(gStaged) = 2
  /\ gAbsorbed # {}
  /\ \A b \in gStaged : disk[b] # gPre[b]

----------------------------------------------------------------------------
(***************************************************************************)
(* SpecInode: NINOPROC processes call iget, idup, ilock, iunlock and iput  *)
(* on the in-memory inode table (kernel/fs.c).  One action per critical    *)
(* section of itable.lock or of an inode's sleep lock.  The disk holds a   *)
(* linked inode, an orphan (type != 0, nlink == 0: what ireclaim looks     *)
(* for) and another linked inode.                                          *)
(***************************************************************************)
InoSlots == 1..NINODE
Inums == 1..NINUM
InoProcs == 1..NINOPROC

ItableInit ==
  [s \in InoSlots |-> [dev |-> 0, inum |-> 0, ref |-> 0, valid |-> FALSE,
                       type |-> 0, nlink |-> 0, lk |-> 0]]
DinodeInit == [i \in Inums |-> [type |-> 1, nlink |-> IF i = 2 THEN 0 ELSE 1]]
InoIdle == [pc |-> "idle", slot |-> 0, refs |-> [s \in InoSlots |-> 0]]

\* (mutant: a lookup that only matches inodes whose contents are loaded)
IgetHitMutant(T, dev, inum) ==
  MinOf({s \in InoSlots : T[s].ref > 0 /\ T[s].dev = dev /\ T[s].inum = inum
                              /\ T[s].valid})
\* iget: the slot with ref > 0 that matches (dev, inum)
IgetHit(T, dev, inum) ==
  MinOf({s \in InoSlots : T[s].ref > 0 /\ T[s].dev = dev /\ T[s].inum = inum})

\* iget: the first slot with ref == 0 (met before the match, if any)
IgetEmpty(T) == MinOf({s \in InoSlots : T[s].ref = 0})

\* iget: the slot returned (0: panic) and the new table
Iget(T, dev, inum) ==
  LET h == IgetHit(T, dev, inum)
      e == IgetEmpty(T)
  IN IF h # 0 THEN [slot |-> h, itable |-> [T EXCEPT ![h].ref = @ + 1]]
     ELSE IF e = 0 THEN [slot |-> 0, itable |-> T]
     ELSE [slot |-> e,
           itable |-> [T EXCEPT ![e].dev = dev, ![e].inum = inum, ![e].ref = 1,
                                ![e].valid = FALSE]]

InoHeld(p) == {s \in InoSlots : iproc[p].refs[s] > 0}
RECURSIVE InoRefsOf(_, _)
InoRefsOf(p, n) == IF n = 0 THEN 0 ELSE iproc[p].refs[n] + InoRefsOf(p, n - 1)
InoLockedBy(p) == {s \in InoSlots : itable[s].lk = p}

InoHalt(msg) ==
  /\ panicked' = msg
  /\ UNCHANGED inoOnly

\* ip = iget(dev, inum)
InoIget(p, inum) ==
  /\ panicked = ""
  /\ iproc[p].pc = "idle"
  /\ InoRefsOf(p, NINODE) < MaxIrefs
  /\ LET g == Iget(itable, ROOTDEV, inum)
     IN IF g.slot = 0 THEN InoHalt("iget: no inodes")
        ELSE /\ itable' = g.itable
             /\ iproc' = [iproc EXCEPT ![p].refs[g.slot] = @ + 1]
             /\ UNCHANGED <<panicked, dinode>>
  /\ UNCHANGED nonIno

\* idup(ip)
InoIdup(p, s) ==
  /\ panicked = ""
  /\ iproc[p].pc = "idle"
  /\ s \in InoHeld(p)
  /\ InoRefsOf(p, NINODE) < MaxIrefs
  /\ itable' = [itable EXCEPT ![s].ref = @ + 1]
  /\ iproc' = [iproc EXCEPT ![p].refs[s] = @ + 1]
  /\ UNCHANGED <<panicked, dinode>>
  /\ UNCHANGED nonIno

\* ilock(ip): acquiresleep, then load the inode from disk unless valid
InoIlock(p, s) ==
  /\ panicked = ""
  /\ iproc[p].pc = "idle"
  /\ s \in InoHeld(p)
  /\ InoLockedBy(p) = {}
  /\ itable[s].lk = 0
  /\ IF itable[s].valid
     THEN /\ itable' = [itable EXCEPT ![s].lk = p]
          /\ UNCHANGED panicked
     ELSE IF dinode[itable[s].inum].type = 0
     THEN /\ panicked' = "ilock: no type"
          /\ UNCHANGED itable
     ELSE /\ itable' = [itable EXCEPT ![s].lk = p, ![s].valid = TRUE,
                                      ![s].type = dinode[itable[s].inum].type,
                                      ![s].nlink = dinode[itable[s].inum].nlink]
          /\ UNCHANGED panicked
  /\ UNCHANGED <<iproc, dinode>>
  /\ UNCHANGED nonIno

\* iunlock(ip)
InoIunlock(p, s) ==
  /\ panicked = ""
  /\ iproc[p].pc = "idle"
  /\ itable[s].lk = p
  /\ itable' = [itable EXCEPT ![s].lk = 0]
  /\ UNCHANGED <<panicked, iproc, dinode>>
  /\ UNCHANGED nonIno

\* (mutant: iput that frees an unlinked inode whoever else refers to it)
IputFreesAnyRef(ip) == ip.ref >= 1 /\ ip.valid /\ ip.nlink = 0
\* iput: is this the last reference to an unlinked inode?
IputFrees(ip) == ip.ref = 1 /\ ip.valid /\ ip.nlink = 0

\* iput(ip) under itable.lock: the last reference to an unlinked inode takes
\* the sleep lock and goes on to free it; any other reference is dropped
InoIput(p, s) ==
  /\ panicked = ""
  /\ iproc[p].pc = "idle"
  /\ s \in InoHeld(p)
  /\ itable[s].lk # p
  /\ IF IputFrees(itable[s])
     THEN /\ itable[s].lk = 0
          /\ itable' = [itable EXCEPT ![s].lk = p]
          /\ iproc' = [iproc EXCEPT ![p].pc = "iput_free", ![p].slot = s]
     ELSE /\ itable' = [itable EXCEPT ![s].ref = @ - 1]
          /\ iproc' = [iproc EXCEPT ![p].refs[s] = @ - 1]
  /\ UNCHANGED <<panicked, dinode>>
  /\ UNCHANGED nonIno

\* iput: itrunc; type = 0; iupdate; valid = 0; releasesleep
InoIputFree(p) ==
  /\ panicked = ""
  /\ iproc[p].pc = "iput_free"
  /\ LET s == iproc[p].slot
     IN /\ itable' = [itable EXCEPT ![s].type = 0, ![s].valid = FALSE, ![s].lk = 0]
        /\ dinode' = [dinode EXCEPT ![itable[s].inum] =
                        [type |-> 0, nlink |-> itable[s].nlink]]
  /\ iproc' = [iproc EXCEPT ![p].pc = "iput_dec"]
  /\ UNCHANGED panicked
  /\ UNCHANGED nonIno

\* iput: acquire(&itable.lock) again; ref--
InoIputDec(p) ==
  /\ panicked = ""
  /\ iproc[p].pc = "iput_dec"
  /\ itable' = [itable EXCEPT ![iproc[p].slot].ref = @ - 1]
  /\ iproc' = [iproc EXCEPT ![p].pc = "idle", ![p].slot = 0,
                            ![p].refs[iproc[p].slot] = @ - 1]
  /\ UNCHANGED <<panicked, dinode>>
  /\ UNCHANGED nonIno

InoNext ==
  \/ \E p \in InoProcs, i \in Inums : InoIget(p, i)
  \/ \E p \in InoProcs, s \in InoSlots : InoIdup(p, s)
  \/ \E p \in InoProcs, s \in InoSlots : InoIlock(p, s)
  \/ \E p \in InoProcs, s \in InoSlots : InoIunlock(p, s)
  \/ \E p \in InoProcs, s \in InoSlots : InoIput(p, s)
  \/ \E p \in InoProcs : InoIputFree(p)
  \/ \E p \in InoProcs : InoIputDec(p)

InoInitVars ==
  /\ itable = ItableInit
  /\ iproc = [p \in InoProcs |-> InoIdle]
  /\ dinode = DinodeInit

\* no two slots in use cache the same (dev, inum)
InoUnique ==
  \A s, u \in InoSlots :
    (s # u /\ itable[s].ref > 0 /\ itable[u].ref > 0) =>
      ~(itable[s].dev = itable[u].dev /\ itable[s].inum = itable[u].inum)

\* a step leaves the (dev, inum) of every slot in use alone
InoNoReassign ==
  \A s \in InoSlots :
    itable[s].ref > 0 =>
      (itable'[s].dev = itable[s].dev /\ itable'[s].inum = itable[s].inum)

\* C7 (inode-table uniqueness): at every moment at most one slot with
\* ref > 0 matches a given (dev, inum), and no step of iget, idup, ilock,
\* iunlock or iput changes the (dev, inum) of a slot whose ref > 0.
C7_ItableUnique == []InoUnique /\ [][InoNoReassign]_vars

\* the table is full, and while one process is between the two critical
\* sections of an iput that frees an inode, another has found the same slot
C7_Witness ==
  /\ \A s \in InoSlots : itable[s].ref > 0
  /\ \E p, q \in InoProcs :
       /\ p # q
       /\ iproc[p].pc = "iput_dec"
       /\ iproc[q].refs[iproc[p].slot] > 0

----------------------------------------------------------------------------
(***************************************************************************)
(* SpecProc: the process table (kernel/proc.c) and a sleep lock            *)
(* (kernel/sleeplock.c) on NCPU harts.  A hart runs scheduler() or the     *)
(* kernel thread of the process it switched to.  Every action starts at a  *)
(* point where the code may have to wait for a spin lock and holds what    *)
(* the hart does up to the next such point; sleep() is cut once more, so   *)
(* that its window between release(lk) and sched() is a state.  A running  *)
(* process in user space may call fork, exit, wait, kill, take a timer     *)
(* interrupt (yield) or make a system call that takes the sleep lock.      *)
(***************************************************************************)
ProcSlots == 1..NPROC
Harts == 1..NCPU
\* initproc is proc[0]
initproc == 1
\* the channel of the sleep lock (the address of the lock); slot numbers are
\* the channels of the processes
SleepLockChan == NPROC + 1

\* a kernel thread at pc, nothing else on its stack; status is kexit's
\* argument, copyout whether kwait's addr is one copyout can write to
KThread(pc) ==
  [pc |-> pc, i |-> 0, j |-> 0, ret |-> "", wchan |-> 0, schan |-> 0,
   slock |-> "", sstep |-> 0, np |-> 0, target |-> 0, status |-> 0,
   copyout |-> TRUE]

\* procinit: state = UNUSED, kstack = KSTACK(i); the rest is zero
ProcUnused ==
  [state |-> "UNUSED", chan |-> 0, killed |-> 0, xstate |-> 0, pid |-> 0,
   parent |-> 0, kstack |-> TRUE, kpagetable |-> FALSE]

\* (mutant: freeproc that leaves p->state alone)
FreeprocMutant(pr) ==
  [pr EXCEPT !.pid = 0, !.parent = 0, !.chan = 0, !.killed = 0, !.xstate = 0,
             !.kstack = FALSE, !.kpagetable = FALSE]
\* freeproc(p)
Freeproc(pr) ==
  [pr EXCEPT !.pid = 0, !.parent = 0, !.chan = 0, !.killed = 0, !.xstate = 0,
             !.state = "UNUSED", !.kstack = FALSE, !.kpagetable = FALSE]
\* freeproc walks p->kpagetable when p->kstack is set: with no page table
\* yet the walk dereferences a null pointer
FreeprocFaults(pr) == pr.kstack /\ ~pr.kpagetable

\* allocproc from found: on
Allocproc(pr, pid) ==
  [pr EXCEPT !.pid = pid, !.state = "USED", !.kstack = TRUE, !.kpagetable = TRUE]

\* (mutant: wakeup that leaves the sleeper asleep)
WakeupOneMutant(pr, chan) == pr
\* (mutant: wakeup that does not compare the channel)
WakeupOneAnyChan(pr, chan) ==
  IF pr.state = "SLEEPING" THEN [pr EXCEPT !.state = "RUNNABLE"] ELSE pr
\* the body of wakeup's loop
WakeupOne(pr, chan) ==
  IF pr.state = "SLEEPING" /\ pr.chan = chan THEN [pr EXCEPT !.state = "RUNNABLE"] ELSE pr
\* (mutant: kkill that sets the flag and leaves a sleeper asleep)
KillOneMutant(pr) == [pr EXCEPT !.killed = 1]
\* (mutant: kkill that makes its target RUNNABLE whatever its state)
KillOneAnyState(pr) == [pr EXCEPT !.killed = 1, !.state = "RUNNABLE"]
\* the body of kkill's loop on a match
KillOne(pr) ==
  [pr EXCEPT !.killed = 1, !.state = IF @ = "SLEEPING" THEN "RUNNABLE" ELSE @]

\* wakeup's loop: the next slot after j that is not myproc()
NextOther(j, p) == MinOf({k \in ProcSlots : k > j /\ k # p})
\* the next slot from i on whose parent is p
NextChild(P, i, p) == MinOf({k \in ProcSlots : k >= i /\ P[k].parent = p})

\* (mutant: sleep that releases lk before it takes p->lock)
SleepOrderMutant == <<"release(lk)", "acquire(&p->lock)">>
\* sleep: the order of its first two calls
SleepOrder == <<"acquire(&p->lock)", "release(lk)">>

Me(h) == cpus[h].proc
At(h, pcs) == panicked = "" /\ Me(h) # 0 /\ kctx[Me(h)].pc \in pcs

\* usertrap: a process in user space traps (system call or timer interrupt)
\* and is not found killed by usertrap's killed(p)
Usertrap(h) == At(h, {"user"}) /\ proc[Me(h)].killed = 0
\* the status of a kexit from user space: sys_exit's argument, or usertrap's
\* kexit(-1) on finding the process killed
ExitStatuses(h) == IF proc[Me(h)].killed = 1 THEN {-1} ELSE 0..MaxStatus

Cur ==
  [proc |-> proc, kctx |-> kctx, cpus |-> cpus, plock |-> plock,
   wait_lock |-> wait_lock, sl |-> sl, nextpid |-> nextpid, panic |-> ""]

ProcStore(s) ==
  IF s.panic # ""
  THEN /\ panicked' = s.panic
       /\ UNCHANGED <<proc, kctx, cpus, plock, wait_lock, sl, nextpid>>
  ELSE /\ proc' = s.proc
       /\ kctx' = s.kctx
       /\ cpus' = s.cpus
       /\ plock' = s.plock
       /\ wait_lock' = s.wait_lock
       /\ sl' = s.sl
       /\ nextpid' = s.nextpid
       /\ UNCHANGED panicked

\* swtch to the scheduler, which clears c->proc, releases p->lock and goes on
\* with the next slot
ToSchedulerKeepsLock(s, h, p) ==
  [s EXCEPT !.cpus[h] = [proc |-> 0, idx |-> (p % NPROC) + 1]]
\* (above: mutant, a scheduler that keeps p->lock after swtch)
ToScheduler(s, h, p) ==
  [s EXCEPT !.cpus[h] = [proc |-> 0, idx |-> (p % NPROC) + 1], !.plock[p] = 0]

\* wakeup(chan) is entered; ret names the caller
StartWakeup(s, p, chan, ret) ==
  [s EXCEPT !.kctx[p].pc = "wakeup", !.kctx[p].wchan = chan,
            !.kctx[p].j = NextOther(0, p), !.kctx[p].ret = ret]

\* (mutant: reparent that gives no child away)
ReparentMutant(s, p, i) == StartWakeup(s, p, s.proc[p].parent, "kexit")
\* kexit holding wait_lock: reparent's loop from slot i, then wakeup(p->parent)
Reparent(s, p, i) ==
  IF NextChild(s.proc, i, p) # 0
  THEN StartWakeup([s EXCEPT !.proc[NextChild(s.proc, i, p)].parent = initproc,
                             !.kctx[p].i = NextChild(s.proc, i, p) + 1],
                   p, initproc, "reparent")
  ELSE StartWakeup(s, p, s.proc[p].parent, "kexit")

\* kwait holding wait_lock: up to the first child's lock, or return -1
WaitScan(s, p) ==
  IF NextChild(s.proc, 1, p) = 0
  THEN [s EXCEPT !.wait_lock = 0, !.kctx[p] = KThread("user")]
  ELSE [s EXCEPT !.kctx[p] = [KThread("kwait") EXCEPT !.i = NextChild(s.proc, 1, p),
                                                     !.copyout = s.kctx[p].copyout]]

\* sleep(chan, lk) is entered
StartSleep(s, p, chan, lk, ret) ==
  [s EXCEPT !.kctx[p] = [KThread("sleep") EXCEPT !.schan = chan, !.slock = lk,
                                                 !.ret = ret, !.sstep = 1,
                                                 !.copyout = s.kctx[p].copyout]]

\* (mutant: acquiresleep that takes the lock without looking at locked)
AcquiresleepTestMutant(s, p) ==
  [s EXCEPT !.sl = [locked |-> 1, pid |-> s.proc[p].pid, lk |-> 0],
            !.kctx[p] = KThread("holding")]
\* acquiresleep holding lk->lk: sleep while locked, else take the lock
AcquiresleepTest(s, p) ==
  IF s.sl.locked = 1
  THEN StartSleep(s, p, SleepLockChan, "sl.lk", "acquiresleep")
  ELSE [s EXCEPT !.sl = [locked |-> 1, pid |-> s.proc[p].pid, lk |-> 0],
                 !.kctx[p] = KThread("holding")]

ProcGhostsUnchanged == UNCHANGED <<gForked, gReaped, gReparented, gWait>>

\* scheduler: one pass of the inner loop; a RUNNABLE process is switched to
\* and runs to the next lock it wants (forkret, or the tail of yield or sleep)
Scheduler(h) ==
  /\ panicked = ""
  /\ Me(h) = 0
  /\ plock[cpus[h].idx] = 0
  /\ LET i == cpus[h].idx
     IN IF proc[i].state = "RUNNABLE"
        THEN ProcStore(
               [Cur EXCEPT !.proc[i].state = "RUNNING",
                           !.proc[i].chan = IF kctx[i].pc = "slept" THEN 0 ELSE @,
                           !.cpus[h].proc = i,
                           !.kctx[i] = IF kctx[i].pc = "slept"
                                       THEN [@ EXCEPT !.pc = "sleep_reacquire"]
                                       ELSE KThread("user")])
        ELSE ProcStore([Cur EXCEPT !.cpus[h].idx = (i % NPROC) + 1])
  /\ ProcGhostsUnchanged
  /\ UNCHANGED nonProc

\* yield (timer interrupt in user space)
Yield(h) ==
  /\ Usertrap(h)
  /\ plock[Me(h)] = 0
  /\ ProcStore(ToScheduler([Cur EXCEPT !.proc[Me(h)].state = "RUNNABLE",
                                       !.kctx[Me(h)] = KThread("yielded")],
                           h, Me(h)))
  /\ ProcGhostsUnchanged
  /\ UNCHANGED nonProc

\* kfork -> allocproc: one pass of its loop; on an UNUSED slot the rest of
\* allocproc and kfork up to release(&np->lock), where any allocation may fail.
\* No kfork is entered once MaxPid is handed out; one that is inside by then
\* and finds a slot runs out of memory.
KforkAlloc(h, outcome) ==
  /\ Usertrap(h) \/ At(h, {"allocproc"})
  /\ Usertrap(h) => nextpid <= MaxPid
  /\ nextpid > MaxPid => outcome # "ok"
  /\ LET p == Me(h)
         i == IF kctx[p].pc = "user" THEN 1 ELSE kctx[p].i
     IN /\ plock[i] = 0
        /\ IF proc[i].state = "UNUSED"
           THEN IF outcome = "ok"
                THEN ProcStore([Cur EXCEPT !.proc[i] = Allocproc(@, nextpid),
                                           !.kctx[i] = KThread("forkret"),
                                           !.kctx[p] = [KThread("kfork_parent") EXCEPT !.np = i],
                                           !.nextpid = @ + 1])
                ELSE IF outcome = "allocproc fails" /\ FreeprocFaults(proc[i])
                THEN ProcStore([Cur EXCEPT !.panic = "kerneltrap"])
                ELSE ProcStore([Cur EXCEPT !.proc[i] = Freeproc(@),
                                           !.kctx[p] = KThread("user"),
                                           !.nextpid = @ + 1])
           ELSE IF i = NPROC
                THEN ProcStore([Cur EXCEPT !.kctx[p] = KThread("user")])
                ELSE ProcStore([Cur EXCEPT !.kctx[p] = [KThread("allocproc") EXCEPT !.i = i + 1]])
  /\ ProcGhostsUnchanged
  /\ UNCHANGED nonProc

\* kfork: acquire(&wait_lock); np->parent = p; release(&wait_lock)
KforkParent(h) ==
  /\ At(h, {"kfork_parent"})
  /\ wait_lock = 0
  /\ ProcStore([Cur EXCEPT !.proc[kctx[Me(h)].np].parent = Me(h),
                           !.kctx[Me(h)].pc = "kfork_runnable"])
  /\ ProcGhostsUnchanged
  /\ UNCHANGED nonProc

\* kfork: acquire(&np->lock); np->state = RUNNABLE; release(&np->lock); return pid
KforkRunnable(h) ==
  /\ At(h, {"kfork_runnable"})
  /\ plock[kctx[Me(h)].np] = 0
  /\ ProcStore([Cur EXCEPT !.proc[kctx[Me(h)].np].state = "RUNNABLE",
                           !.kctx[Me(h)] = KThread("user")])
  /\ gForked' = gForked + 1
  /\ UNCHANGED <<gReaped, gReparented, gWait>>
  /\ UNCHANGED nonProc

\* kexit(status): initproc must not exit; acquire(&wait_lock); reparent(p) up
\* to its first wakeup(initproc), or wakeup(p->parent)
Kexit(h, status) ==
  /\ At(h, {"user"})
  /\ status \in ExitStatuses(h)
  /\ IF Me(h) = initproc
     THEN /\ proc[initproc].killed = 1
          /\ ProcStore([Cur EXCEPT !.panic = "init exiting"])
          /\ UNCHANGED gReparented
     ELSE /\ wait_lock = 0
          /\ ProcStore(Reparent([Cur EXCEPT !.wait_lock = h,
                                             !.kctx[Me(h)].status = status],
                                Me(h), 1))
          /\ gReparented' = (gReparented \/ NextChild(proc, 1, Me(h)) # 0)
  /\ UNCHANGED <<gForked, gReaped, gWait>>
  /\ UNCHANGED nonProc

\* wakeup: one pass of its loop; after the last one the caller goes on to its
\* next lock
Wakeup(h) ==
  /\ At(h, {"wakeup"})
  /\ plock[kctx[Me(h)].j] = 0
  /\ LET p == Me(h)
         j == kctx[p].j
         s == [Cur EXCEPT !.proc[j] = WakeupOne(@, kctx[p].wchan)]
     IN /\ IF NextOther(j, p) # 0
           THEN ProcStore([s EXCEPT !.kctx[p].j = NextOther(j, p)])
           ELSE IF kctx[p].ret = "reparent"
           THEN ProcStore(Reparent(s, p, kctx[p].i))
           ELSE IF kctx[p].ret = "kexit"
           THEN ProcStore([s EXCEPT !.kctx[p] = [KThread("kexit_zombie") EXCEPT
                                                   !.status = kctx[p].status]])
           ELSE ProcStore([s EXCEPT !.sl.lk = 0, !.kctx[p] = KThread("user")])
        /\ gReparented' = (gReparented \/ (/\ NextOther(j, p) = 0
                                           /\ kctx[p].ret = "reparent"
                                           /\ NextChild(proc, kctx[p].i, p) # 0))
  /\ UNCHANGED <<gForked, gReaped, gWait>>
  /\ UNCHANGED nonProc

\* kexit: acquire(&p->lock); xstate; state = ZOMBIE; release(&wait_lock); sched()
KexitZombie(h) ==
  /\ At(h, {"kexit_zombie"})
  /\ plock[Me(h)] = 0
  /\ ProcStore(ToScheduler([Cur EXCEPT !.proc[Me(h)].xstate = kctx[Me(h)].status,
                                       !.proc[Me(h)].state = "ZOMBIE",
                                       !.wait_lock = 0,
                                       !.kctx[Me(h)] = [KThread("zombie") EXCEPT
                                                          !.status = kctx[Me(h)].status]],
                           h, Me(h)))
  /\ ProcGhostsUnchanged
  /\ UNCHANGED nonProc

\* kwait(addr): acquire(&wait_lock) and the scan up to the first child
Kwait(h, copyout) ==
  /\ Usertrap(h)
  /\ wait_lock = 0
  /\ ProcStore(WaitScan([Cur EXCEPT !.wait_lock = h, !.kctx[Me(h)].copyout = copyout],
                        Me(h)))
  /\ ProcGhostsUnchanged
  /\ UNCHANGED nonProc

\* kwait: acquire(&pp->lock) of a child; a ZOMBIE is freed (unless copyout
\* fails), else the scan goes on to the next child or to killed(p)
KwaitChild(h) ==
  /\ At(h, {"kwait"})
  /\ plock[kctx[Me(h)].i] = 0
  /\ LET p == Me(h)
         i == kctx[p].i
     IN IF proc[i].state = "ZOMBIE"
        THEN IF kctx[p].copyout
             THEN /\ ProcStore([Cur EXCEPT !.proc[i] = Freeproc(@),
                                           !.kctx[i] = KThread("free"),
                                           !.wait_lock = 0,
                                           !.kctx[p] = KThread("user")])
                  /\ gReaped' = gReaped + 1
                  /\ gWait' = [pid |-> proc[i].pid, status |-> proc[i].xstate]
             ELSE /\ ProcStore([Cur EXCEPT !.wait_lock = 0, !.kctx[p] = KThread("user")])
                  /\ UNCHANGED <<gReaped, gWait>>
        ELSE /\ IF NextChild(proc, i + 1, p) # 0
                THEN ProcStore([Cur EXCEPT !.kctx[p].i = NextChild(proc, i + 1, p)])
                ELSE ProcStore([Cur EXCEPT !.kctx[p] = [KThread("kwait_killed") EXCEPT
                                                         !.copyout = kctx[p].copyout]])
             /\ UNCHANGED <<gReaped, gWait>>
  /\ UNCHANGED <<gForked, gReparented>>
  /\ UNCHANGED nonProc

\* (mutant: kwait that returns -1 whenever no child is a ZOMBIE)
KwaitKilledNoSleep(h) ==
  /\ At(h, {"kwait_killed"})
  /\ plock[Me(h)] = 0
  /\ ProcStore([Cur EXCEPT !.wait_lock = 0, !.kctx[Me(h)] = KThread("user")])
  /\ ProcGhostsUnchanged
  /\ UNCHANGED nonProc
\* kwait: killed(p) takes p->lock; return -1 or sleep(p, &wait_lock)
KwaitKilled(h) ==
  /\ At(h, {"kwait_killed"})
  /\ plock[Me(h)] = 0
  /\ IF proc[Me(h)].killed = 1
     THEN ProcStore([Cur EXCEPT !.wait_lock = 0, !.kctx[Me(h)] = KThread("user")])
     ELSE ProcStore(StartSleep(Cur, Me(h), Me(h), "wait_lock", "kwait"))
  /\ ProcGhostsUnchanged
  /\ UNCHANGED nonProc

SleepAfter(s, p) ==
  IF kctx[p].sstep = Len(SleepOrder)
  THEN [s EXCEPT !.kctx[p].pc = "sleep_sched", !.kctx[p].sstep = 0]
  ELSE [s EXCEPT !.kctx[p].sstep = @ + 1]

\* sleep: acquire(&p->lock)
SleepAcquire(h) ==
  /\ At(h, {"sleep"})
  /\ SleepOrder[kctx[Me(h)].sstep] = "acquire(&p->lock)"
  /\ plock[Me(h)] = 0
  /\ ProcStore(SleepAfter([Cur EXCEPT !.plock[Me(h)] = h], Me(h)))
  /\ ProcGhostsUnchanged
  /\ UNCHANGED nonProc

\* sleep: release(lk)
SleepRelease(h) ==
  /\ At(h, {"sleep"})
  /\ SleepOrder[kctx[Me(h)].sstep] = "release(lk)"
  /\ IF kctx[Me(h)].slock = "wait_lock"
     THEN ProcStore(SleepAfter([Cur EXCEPT !.wait_lock = 0], Me(h)))
     ELSE ProcStore(SleepAfter([Cur EXCEPT !.sl.lk = 0], Me(h)))
  /\ ProcGhostsUnchanged
  /\ UNCHANGED nonProc

\* sleep: p->chan = chan; p->state = SLEEPING; sched()
SleepSched(h) ==
  /\ At(h, {"sleep_sched"})
  /\ ProcStore(ToScheduler([Cur EXCEPT !.proc[Me(h)].chan = kctx[Me(h)].schan,
                                       !.proc[Me(h)].state = "SLEEPING",
                                       !.kctx[Me(h)].pc = "slept"],
                           h, Me(h)))
  /\ ProcGhostsUnchanged
  /\ UNCHANGED nonProc

\* sleep: acquire(lk) on the way out, and the caller's loop up to its next lock
SleepReacquire(h) ==
  /\ At(h, {"sleep_reacquire"})
  /\ IF kctx[Me(h)].slock = "wait_lock"
     THEN /\ wait_lock = 0
          /\ ProcStore(WaitScan([Cur EXCEPT !.wait_lock = h], Me(h)))
     ELSE /\ sl.lk = 0
          /\ ProcStore(AcquiresleepTest([Cur EXCEPT !.sl.lk = h], Me(h)))
  /\ ProcGhostsUnchanged
  /\ UNCHANGED nonProc

\* acquiresleep(lk) from a system call
Acquiresleep(h) ==
  /\ Usertrap(h)
  /\ sl.lk = 0
  /\ ProcStore(AcquiresleepTest([Cur EXCEPT !.sl.lk = h], Me(h)))
  /\ ProcGhostsUnchanged
  /\ UNCHANGED nonProc

\* releasesleep(lk): acquire(&lk->lk); locked = 0; pid = 0; wakeup(lk) is entered
Releasesleep(h) ==
  /\ At(h, {"holding"})
  /\ sl.lk = 0
  /\ ProcStore(StartWakeup([Cur EXCEPT !.sl = [locked |-> 0, pid |-> 0, lk |-> h]],
                           Me(h), SleepLockChan, "releasesleep"))
  /\ ProcGhostsUnchanged
  /\ UNCHANGED nonProc

\* kkill(pid): one pass of its loop
Kkill(h, pid) ==
  /\ Usertrap(h) \/ At(h, {"kkill"})
  /\ kctx[Me(h)].pc = "kkill" => pid = kctx[Me(h)].target
  /\ LET p == Me(h)
         i == IF kctx[p].pc = "user" THEN 1 ELSE kctx[p].i
     IN /\ plock[i] = 0
        /\ IF proc[i].pid = pid
           THEN ProcStore([Cur EXCEPT !.proc[i] = KillOne(@), !.kctx[p] = KThread("user")])
           ELSE IF i = NPROC
           THEN ProcStore([Cur EXCEPT !.kctx[p] = KThread("user")])
           ELSE ProcStore([Cur EXCEPT !.kctx[p] = [KThread("kkill") EXCEPT !.i = i + 1,
                                                                          !.target = pid]])
  /\ ProcGhostsUnchanged
  /\ UNCHANGED nonProc

ProcNext ==
  \/ \E h \in Harts : Scheduler(h)
  \/ \E h \in Harts : Yield(h)
  \/ \E h \in Harts, o \in {"ok", "allocproc fails", "uvmcopy fails"} : KforkAlloc(h, o)
  \/ \E h \in Harts : KforkParent(h)
  \/ \E h \in Harts : KforkRunnable(h)
  \/ \E h \in Harts, st \in {-1} \cup (0..MaxStatus) : Kexit(h, st)
  \/ \E h \in Harts : Wakeup(h)
  \/ \E h \in Harts : KexitZombie(h)
  \/ \E h \in Harts, ok \in BOOLEAN : Kwait(h, ok)
  \/ \E h \in Harts : KwaitChild(h)
  \/ \E h \in Harts : KwaitKilled(h)
  \/ \E h \in Harts : SleepAcquire(h)
  \/ \E h \in Harts : SleepRelease(h)
  \/ \E h \in Harts : SleepSched(h)
  \/ \E h \in Harts : SleepReacquire(h)
  \/ \E h \in Harts : Acquiresleep(h)
  \/ \E h \in Harts : Releasesleep(h)
  \/ \E h \in Harts, pid \in 1..MaxPid : Kkill(h, pid)

\* after procinit and userinit: proc[0] is the first process, RUNNABLE
ProcInitVars ==
  /\ proc = [i \in ProcSlots |->
               IF i = initproc
               THEN [Allocproc(ProcUnused, 1) EXCEPT !.state = "RUNNABLE"]
               ELSE ProcUnused]
  /\ kctx = [i \in ProcSlots |-> IF i = initproc THEN KThread("forkret") ELSE KThread("free")]
  /\ cpus = [h \in Harts |-> [proc |-> 0, idx |-> 1]]
  /\ plock = [i \in ProcSlots |-> 0]
  /\ wait_lock = 0
  /\ sl = [locked |-> 0, pid |-> 0, lk |-> 0]
  /\ nextpid = 2
  /\ gForked = 0
  /\ gReaped = 0
  /\ gReparented = FALSE
  /\ gWait = [pid |-> 0, status |-> 0]

----------------------------------------------------------------------------
(***************************************************************************)
(* Properties of the process table.                                        *)
(***************************************************************************)

\* C8 (state SLEEPING iff chan non-null): whenever a slot's p->lock is free,
\* the slot is SLEEPING exactly when its chan is not null.
C8_SleepingIffChan ==
  \A i \in ProcSlots :
    plock[i] = 0 => (proc[i].state = "SLEEPING" <=> proc[i].chan # 0)

\* the lock nobody holds while a process sleeps on the sleep lock: the lock
\* is taken; while a parent sleeps in kwait: it has no ZOMBIE child
SleepConditionFalse(i) ==
  /\ (proc[i].chan = SleepLockChan /\ sl.lk = 0) => sl.locked = 1
  /\ (proc[i].chan = i /\ wait_lock = 0) =>
       \A c \in ProcSlots : ~(proc[c].parent = i /\ proc[c].state = "ZOMBIE")

\* C9 (no lost wakeup): a process that tested its condition under lk and
\* called sleep(chan, lk) is not left SLEEPING on chan once a waker has changed
\* the condition under lk and finished wakeup(chan): whenever a slot is
\* SLEEPING with its p->lock and lk free, the condition it waits for is
\* still false.
C9_NoLostWakeup ==
  \A i \in ProcSlots :
    (proc[i].state = "SLEEPING" /\ plock[i] = 0) => SleepConditionFalse(i)

\* the waker has released the sleep lock and stands in wakeup at the
\* sleeper's slot, while the sleeper has released lk and not yet stored
\* state = SLEEPING
C9_Witness ==
  \E s, w \in ProcSlots :
    /\ kctx[s].pc = "sleep_sched"
    /\ kctx[s].schan = SleepLockChan
    /\ proc[s].state = "RUNNING"
    /\ kctx[w].pc = "wakeup"
    /\ kctx[w].wchan = SleepLockChan
    /\ kctx[w].j = s
    /\ sl.locked = 0

UnusedCount == Cardinality({i \in ProcSlots : proc[i].state = "UNUSED"})
InKfork == {i \in ProcSlots : kctx[i].pc \in {"kfork_parent", "kfork_runnable"}}

\* C10 (fork/exit/wait balance): when every process that kfork returned has
\* been returned by a kwait and no kfork is under way, as many slots are
\* UNUSED as before the first fork (all but initproc's).
C10_ForkExitWaitBalance ==
  (gForked = gReaped /\ InKfork = {}) => UnusedCount = NPROC - 1

\* two processes were forked and waited for, one of them after reparent gave
\* it to initproc
C10_Witness ==
  /\ gForked = 2
  /\ gReaped = 2
  /\ gReparented
  /\ InKfork = {}
  /\ panicked = ""

\* a process that called kexit(st) and has not been freed
ExitCalled(c, st) ==
  /\ kctx[c].pc \in {"wakeup", "kexit_zombie", "zombie"}
  /\ kctx[c].ret \in {"reparent", "kexit", ""}
  /\ kctx[c].status = st
\* a process inside kwait(addr), addr one that copyout can write to
WaitCalled(p) ==
  /\ \/ kctx[p].pc \in {"kwait", "kwait_killed"}
     \/ /\ kctx[p].pc \in {"sleep", "sleep_sched", "slept", "sleep_reacquire"}
        /\ kctx[p].slock = "wait_lock"
  /\ kctx[p].copyout

\* the child with pid in slot c has called kexit(st), its parent is inside
\* kwait and not killed, and the two are the only processes
ExitMeetsWait(c, pid, st) ==
  /\ proc[c].pid = pid
  /\ ExitCalled(c, st)
  /\ proc[c].parent # 0
  /\ WaitCalled(proc[c].parent)
  /\ proc[proc[c].parent].killed = 0
  /\ \A o \in ProcSlots \ {c, proc[c].parent} : proc[o].state = "UNUSED"

\* C11 (exit meets wait): once a child has called kexit(status) and its
\* parent kwait, in either order and on any two harts, the parent's kwait
\* eventually returns the child's pid and copies out that status, under
\* fair scheduling.
C11_ExitWaitRendezvous ==
  \A pid \in 2..MaxPid, st \in 0..MaxStatus :
    (\E c \in ProcSlots : ExitMeetsWait(c, pid, st))
      ~> (gWait = [pid |-> pid, status |-> st])

\* the parent went to sleep in kwait before its child called kexit
C11_Witness ==
  \E c \in ProcSlots :
    /\ ExitMeetsWait(c, proc[c].pid, 1)
    /\ kctx[c].pc = "wakeup"
    /\ proc[proc[c].parent].state = "SLEEPING"

\* a ZOMBIE slot is freed only by the step of kwait in which the slot's
\* parent, holding wait_lock, stands at that slot
ReapedByParent ==
  \A i \in ProcSlots :
    (proc[i].state = "ZOMBIE" /\ proc'[i].state # "ZOMBIE") =>
      /\ proc'[i].state = "UNUSED"
      /\ \E h \in Harts :
           /\ Me(h) = proc[i].parent
           /\ kctx[Me(h)].pc = "kwait"
           /\ kctx[Me(h)].i = i
           /\ wait_lock = h
           /\ kctx'[Me(h)].pc = "user"
\* the parent of a process changes only to initproc, and only while the old
\* parent is inside kexit
OrphansToInit ==
  \A i \in ProcSlots :
    (proc[i].parent # 0 /\ proc'[i].parent \notin {0, proc[i].parent}) =>
      /\ proc'[i].parent = initproc
      /\ kctx'[proc[i].parent].pc \in {"wakeup", "kexit_zombie"}
\* a ZOMBIE has no children left, and its own parent is a process that has
\* not exited
ZombieHasLiveParent ==
  \A z \in ProcSlots :
    proc[z].state = "ZOMBIE" =>
      /\ \A k \in ProcSlots : proc[k].parent # z
      /\ proc[z].parent # 0
      /\ proc[proc[z].parent].state \in {"RUNNABLE", "RUNNING", "SLEEPING"}

\* C12 (only the parent reaps; orphans go to init): a slot leaves ZOMBIE only
\* for UNUSED and only in kwait run by its parent of that moment; a process
\* that exits leaves no child behind (each got initproc as its parent), so
\* every ZOMBIE has a parent that has not exited.
C12_ParentReaps ==
  /\ [][ReapedByParent /\ OrphansToInit]_vars
  /\ []ZombieHasLiveParent

\* initproc, in kwait, stands at a ZOMBIE that reparent gave to it
C12_Witness ==
  \E z \in ProcSlots :
    /\ proc[z].state = "ZOMBIE"
    /\ proc[z].pid = 3
    /\ proc[z].parent = initproc
    /\ gReparented
    /\ kctx[initproc].pc = "kwait"
    /\ kctx[initproc].i = z

----------------------------------------------------------------------------
(***************************************************************************)
(* SpecVm: physical frames, page tables and process images               *)
(* (kernel/kalloc.c, kernel/vm.c, kernel/exec.c and the memory side of     *)
(* kernel/proc.c and usertrap).  Addresses are page numbers and sizes are  *)
(* counted in pages.  A page-table page holds PTES entries (512 in the     *)
(* kernel) and there are three levels, so MAXVA is PTES^3 pages.  A state  *)
(* m of the memory is [free, ref, pt, procs, panic, ret]: kmem.freelist,   *)
(* page_ref.ref_arr, the contents of the page-table pages, the memory      *)
(* fields of proc[], the message of a panic and the value the last call    *)
(* returned.  A call made after a panic changes nothing.                   *)
(***************************************************************************)
Frames == 1..NFRAME
VmProcs == 1..NVMPROC
MAXVA == PTES * PTES * PTES
TRAMPOLINE == MAXVA - 1
TRAPFRAME == TRAMPOLINE - 1
\* KSTACK(p) for proc[i - 1]
KSTACK(i) == TRAMPOLINE - i * 2
\* a device page below the kernel that every kernel page table maps
PLIC == PTES * PTES - 1
\* PX(level, va)
PX(level, va) == IF level = 2 THEN va \div (PTES * PTES)
                 ELSE IF level = 1 THEN (va \div PTES) % PTES
                 ELSE va % PTES

\* a page-table entry; pa = 0 is memory outside the allocator (trampoline,
\* devices)
ZeroPte == [v |-> FALSE, pa |-> 0, perm |-> {}]
ZeroPage == [i \in 0..(PTES - 1) |-> ZeroPte]
IsLeaf(pte) == pte.v /\ pte.perm \cap {"R", "W", "X"} # {}

\* kalloc: the head of the free list, reference count 1
Kalloc(m) ==
  IF m.panic # "" THEN m
  ELSE IF m.free = <<>> THEN [m EXCEPT !.ret = 0]
  ELSE [m EXCEPT !.free = Tail(@), !.ref[Head(m.free)] = 1, !.ret = Head(m.free)]

\* (mutant: kfree that frees a frame others still refer to)
KfreeMutant(m, pa) ==
  IF m.panic # "" THEN m
  ELSE IF pa \notin Frames THEN [m EXCEPT !.panic = "kfree"]
  ELSE [m EXCEPT !.ref[pa] = @ - 1, !.free = <<pa>> \o @, !.pt[pa] = ZeroPage]
\* kfree(pa): panics outside the allocator's range; drops a reference and
\* pushes the frame when none is left
Kfree(m, pa) ==
  IF m.panic # "" THEN m
  ELSE IF pa \notin Frames THEN [m EXCEPT !.panic = "kfree"]
  ELSE IF m.ref[pa] - 1 <= 0
  THEN [m EXCEPT !.ref[pa] = @ - 1, !.free = <<pa>> \o @, !.pt[pa] = ZeroPage]
  ELSE [m EXCEPT !.ref[pa] = @ - 1]

\* one level of walk: the table the entry idx of tbl points to (allocated
\* when alloc), or 0
WalkLevel(m, tbl, idx, alloc) ==
  IF m.panic # "" THEN m
  ELSE IF m.pt[tbl][idx].v THEN [m EXCEPT !.ret = m.pt[tbl][idx].pa]
  ELSE IF ~alloc THEN [m EXCEPT !.ret = 0]
  ELSE Then(Kalloc(m), LAMBDA m1 :
         IF m1.ret = 0 THEN m1
         ELSE [m1 EXCEPT !.pt[m1.ret] = ZeroPage,
                         !.pt[tbl][idx] = [v |-> TRUE, pa |-> m1.ret, perm |-> {}]])

\* walk(pagetable, va, alloc): ret is the level-0 table holding va's
\* entry (the entry is ret[PX(0, va)]), or 0
Walk(m, pagetable, va, alloc) ==
  IF m.panic # "" THEN m
  ELSE IF va >= MAXVA THEN [m EXCEPT !.panic = "walk"]
  ELSE Then(WalkLevel(m, pagetable, PX(2, va), alloc), LAMBDA m1 :
         IF m1.ret = 0 THEN m1 ELSE WalkLevel(m1, m1.ret, PX(1, va), alloc))

\* the entry walk found
PteAt(m, va) == m.pt[m.ret][PX(0, va)]

\* mappages(pagetable, va, PGSIZE, pa, perm): ret is 0 or -1
Mappages(m, pagetable, va, pa, perm) ==
  Then(Walk(m, pagetable, va, TRUE), LAMBDA m1 :
    IF m1.panic # "" THEN m1
    ELSE IF m1.ret = 0 THEN [m1 EXCEPT !.ret = -1]
    ELSE IF PteAt(m1, va).v THEN [m1 EXCEPT !.panic = "mappages: remap"]
    ELSE [m1 EXCEPT !.pt[m1.ret][PX(0, va)] = [v |-> TRUE, pa |-> pa, perm |-> perm],
                    !.ret = 0])

\* uvmunmap(pagetable, va, npages, do_free)
RECURSIVE Uvmunmap(_, _, _, _, _)
Uvmunmap(m, pagetable, va, npages, do_free) ==
  IF m.panic # "" \/ npages <= 0 THEN m
  ELSE Then(Walk(m, pagetable, va, FALSE), LAMBDA m1 :
         Then(IF m1.panic # "" \/ m1.ret = 0 THEN m1
              ELSE IF ~PteAt(m1, va).v THEN m1
              ELSE Then(IF do_free THEN [Kfree(m1, PteAt(m1, va).pa) EXCEPT !.ret = m1.ret]
                        ELSE m1,
                        LAMBDA m2 : IF m2.panic # "" THEN m2
                                    ELSE [m2 EXCEPT !.pt[m1.ret][PX(0, va)] = ZeroPte]),
              LAMBDA m3 : Uvmunmap(m3, pagetable, va + 1, npages - 1, do_free)))

\* uvmdealloc(pagetable, oldsz, newsz): ret is the new size
Uvmdealloc(m, pagetable, oldsz, newsz) ==
  IF newsz >= oldsz THEN [m EXCEPT !.ret = oldsz]
  ELSE [Uvmunmap(m, pagetable, newsz, oldsz - newsz, TRUE) EXCEPT !.ret = newsz]

\* uvmalloc(pagetable, oldsz, newsz, xperm) from page a on: ret is newsz, or
\* 0 after undoing what it allocated
RECURSIVE UvmallocFrom(_, _, _, _, _, _)
UvmallocFrom(m, pagetable, a, oldsz, newsz, xperm) ==
  IF m.panic # "" THEN m
  ELSE IF a >= newsz THEN [m EXCEPT !.ret = newsz]
  ELSE Then(Kalloc(m), LAMBDA m1 :
         IF m1.ret = 0
         THEN [Uvmdealloc(m1, pagetable, a, oldsz) EXCEPT !.ret = 0]
         ELSE Then(Mappages(m1, pagetable, a, m1.ret, {"R", "U"} \cup xperm), LAMBDA m2 :
                IF m2.panic # "" THEN m2
                ELSE IF m2.ret # 0
                THEN [Uvmdealloc(Kfree(m2, m1.ret), pagetable, a, oldsz) EXCEPT !.ret = 0]
                ELSE UvmallocFrom(m2, pagetable, a + 1, oldsz, newsz, xperm)))
Uvmalloc(m, pagetable, oldsz, newsz, xperm) ==
  IF newsz < oldsz THEN [m EXCEPT !.ret = oldsz]
  ELSE UvmallocFrom(m, pagetable, oldsz, oldsz, newsz, xperm)

\* freewalk(pagetable) from entry i on
RECURSIVE FreewalkFrom(_, _, _)
FreewalkFrom(m, pagetable, i) ==
  IF m.panic # "" THEN m
  ELSE IF i >= PTES THEN Kfree(m, pagetable)
  ELSE IF m.pt[pagetable][i].v /\ ~IsLeaf(m.pt[pagetable][i])
  THEN Then(FreewalkFrom(m, m.pt[pagetable][i].pa, 0), LAMBDA m1 :
         IF m1.panic # "" THEN m1
         ELSE FreewalkFrom([m1 EXCEPT !.pt[pagetable][i] = ZeroPte], pagetable, i + 1))
  ELSE IF m.pt[pagetable][i].v THEN [m EXCEPT !.panic = "freewalk: leaf"]
  ELSE FreewalkFrom(m, pagetable, i + 1)

\* proc_freewalk(pagetable) from entry i on: leaves are dropped, not freed
RECURSIVE ProcFreewalkFrom(_, _, _)
ProcFreewalkFrom(m, pagetable, i) ==
  IF m.panic # "" THEN m
  ELSE IF i >= PTES THEN Kfree(m, pagetable)
  ELSE IF m.pt[pagetable][i].v
  THEN Then(IF IsLeaf(m.pt[pagetable][i])
            THEN [m EXCEPT !.pt[pagetable][i] = ZeroPte]
            ELSE ProcFreewalkFrom([m EXCEPT !.pt[pagetable][i] = ZeroPte],
                                  m.pt[pagetable][i].pa, 0),
            LAMBDA m1 : ProcFreewalkFrom(m1, pagetable, i + 1))
  ELSE ProcFreewalkFrom(m, pagetable, i + 1)

\* uvmfree(pagetable, sz)
Uvmfree(m, pagetable, sz) ==
  Then(IF sz > 0 THEN Uvmunmap(m, pagetable, 0, sz, TRUE) ELSE m,
       LAMBDA m1 : FreewalkFrom(m1, pagetable, 0))

\* uvmcopy(old, new, sz) from page i on: ret is 0 or -1
RECURSIVE UvmcopyFrom(_, _, _, _, _)
UvmcopyFrom(m, old, new, i, sz) ==
  IF m.panic # "" THEN m
  ELSE IF i >= sz THEN [m EXCEPT !.ret = 0]
  ELSE Then(Walk(m, old, i, FALSE), LAMBDA m1 :
         IF m1.ret = 0 \/ ~PteAt(m1, i).v
         THEN UvmcopyFrom(m1, old, new, i + 1, sz)
         ELSE Then(Kalloc(m1), LAMBDA m2 :
                IF m2.ret = 0
                THEN [Uvmunmap(m2, new, 0, i, TRUE) EXCEPT !.ret = -1]
                ELSE Then(Mappages(m2, new, i, m2.ret, PteAt(m1, i).perm), LAMBDA m3 :
                       IF m3.panic # "" THEN m3
                       ELSE IF m3.ret # 0
                       THEN [Uvmunmap(Kfree(m3, m2.ret), new, 0, i, TRUE) EXCEPT !.ret = -1]
                       ELSE UvmcopyFrom(m3, old, new, i + 1, sz))))

\* u2kvmcopy(upgtbl, kpgtbl, begin, end) from page i on: ret is 0 or -1
RECURSIVE U2kvmcopy(_, _, _, _, _)
U2kvmcopy(m, upgtbl, kpgtbl, i, end) ==
  IF m.panic # "" THEN m
  ELSE IF i >= end THEN [m EXCEPT !.ret = 0]
  ELSE Then(Walk(m, upgtbl, i, FALSE), LAMBDA m1 :
         IF m1.panic # "" THEN m1
         ELSE IF m1.ret = 0 THEN [m1 EXCEPT !.panic = "uvmmap_copy: pte should exist"]
         ELSE IF ~PteAt(m1, i).v THEN [m1 EXCEPT !.panic = "uvmmap_copy: page not exist"]
         ELSE Then(Mappages(m1, kpgtbl, i, PteAt(m1, i).pa, PteAt(m1, i).perm \ {"U"}),
                LAMBDA m2 :
                  IF m2.panic # "" THEN m2
                  ELSE IF m2.ret # 0
                  THEN [Uvmunmap(m2, kpgtbl, 0, i, FALSE) EXCEPT !.ret = -1]
                  ELSE U2kvmcopy(m2, upgtbl, kpgtbl, i + 1, end)))

\* proc_freepagetable(pagetable, sz)
ProcFreepagetable(m, pagetable, sz) ==
  Then(Uvmunmap(m, pagetable, TRAMPOLINE, 1, FALSE), LAMBDA m1 :
    Then(Uvmunmap(m1, pagetable, TRAPFRAME, 1, FALSE), LAMBDA m2 :
      Uvmfree(m2, pagetable, sz)))

\* proc_pagetable(p): ret is the new table, or 0
ProcPagetable(m, trapframe) ==
  Then(Kalloc(m), LAMBDA m0 :
    IF m0.ret = 0 THEN m0
    ELSE Then(Mappages([m0 EXCEPT !.pt[m0.ret] = ZeroPage], m0.ret, TRAMPOLINE, 0, {"R", "X"}),
           LAMBDA m1 :
      IF m1.panic # "" THEN m1
      ELSE IF m1.ret # 0 THEN [Uvmfree(m1, m0.ret, 0) EXCEPT !.ret = 0]
      ELSE Then(Mappages(m1, m0.ret, TRAPFRAME, trapframe, {"R", "W"}), LAMBDA m2 :
             IF m2.panic # "" THEN m2
             ELSE IF m2.ret # 0
             THEN [Uvmfree(Uvmunmap(m2, m0.ret, TRAMPOLINE, 1, FALSE), m0.ret, 0)
                     EXCEPT !.ret = 0]
             ELSE [m2 EXCEPT !.ret = m0.ret])))

\* ukvmmap(kpagetable, va, pa, PGSIZE, perm)
Ukvmmap(m, kpagetable, va, pa, perm) ==
  Then(Mappages(m, kpagetable, va, pa, perm), LAMBDA m1 :
    IF m1.panic = "" /\ m1.ret # 0 THEN [m1 EXCEPT !.panic = "ukvmmap"] ELSE m1)

\* ukvminit(): ret is the new kernel page table, or 0
Ukvminit(m) ==
  Then(Kalloc(m), LAMBDA m0 :
    IF m0.ret = 0 THEN m0
    ELSE [Ukvmmap(Ukvmmap([m0 EXCEPT !.pt[m0.ret] = ZeroPage], m0.ret, PLIC, 0, {"R", "W"}),
                  m0.ret, TRAMPOLINE, 0, {"R", "X"})
            EXCEPT !.ret = m0.ret])

\* procinit: the slot of proc[i - 1] before its first use
VmProcUnused(i) ==
  [used |-> FALSE, sz |-> 0, pagetable |-> 0, kpagetable |-> 0, trapframe |-> 0,
   alarmframe |-> 0, kstack |-> KSTACK(i), killed |-> 0, a1 |-> 0]

\* freeproc(p) with p->kstack set and p->kpagetable null: walk reads its
\* first entry through a null pointer.  What is at that address is up to
\* the running process: the read faults (-2), or gives a word walk takes
\* for an invalid entry (-1), or a word that ends in kfree of an address
\* outside the allocator (0) or of some frame
NullWalkOutcomes == (-2..0) \cup Frames
NullWalkPanic(null) ==
  IF null = -2 THEN "kerneltrap" ELSE IF null = -1 THEN "freeproc" ELSE "kfree"

\* freeproc(p); null is what the walk through a null p->kpagetable does
VmFreeproc(m, p, null) ==
  Then(IF m.procs[p].trapframe # 0 THEN Kfree(m, m.procs[p].trapframe) ELSE m, LAMBDA m1 :
    Then(IF m.procs[p].alarmframe # 0 THEN Kfree(m1, m.procs[p].alarmframe) ELSE m1, LAMBDA m2 :
      Then(IF m.procs[p].pagetable # 0
           THEN ProcFreepagetable(m2, m.procs[p].pagetable, m.procs[p].sz) ELSE m2, LAMBDA m3 :
        Then(IF m.procs[p].kstack = 0 THEN m3
             ELSE IF m.procs[p].kpagetable = 0
             THEN IF null \in Frames THEN Kfree(m3, null)
                  ELSE IF m3.panic = "" THEN [m3 EXCEPT !.panic = NullWalkPanic(null)] ELSE m3
             ELSE Then(Walk(m3, m.procs[p].kpagetable, m.procs[p].kstack, FALSE), LAMBDA m4 :
                    IF m4.panic # "" THEN m4
                    ELSE IF m4.ret = 0 THEN [m4 EXCEPT !.panic = "freeproc"]
                    ELSE Kfree(m4, PteAt(m4, m.procs[p].kstack).pa)), LAMBDA m5 :
          Then(IF m.procs[p].kpagetable # 0
               THEN ProcFreewalkFrom(m5, m.procs[p].kpagetable, 0) ELSE m5, LAMBDA m6 :
            IF m6.panic # "" THEN m6
            ELSE [m6 EXCEPT !.procs[p] = [VmProcUnused(p) EXCEPT !.kstack = 0]])))))

\* allocproc from found: on, for the slot p: ret is p, or 0 after freeproc
VmAllocproc(m, p, null) ==
  Then(Kalloc([m EXCEPT !.procs[p].used = TRUE]), LAMBDA m1 :
    IF m1.ret = 0 THEN [VmFreeproc(m1, p, null) EXCEPT !.ret = 0]
    ELSE Then(Kalloc([m1 EXCEPT !.procs[p].trapframe = m1.ret]), LAMBDA m2 :
      IF m2.ret = 0 THEN [VmFreeproc(m2, p, null) EXCEPT !.ret = 0]
      ELSE Then(ProcPagetable([m2 EXCEPT !.procs[p].alarmframe = m2.ret],
                              m1.ret), LAMBDA m3 :
        IF m3.panic # "" THEN m3
        ELSE IF m3.ret = 0 THEN [VmFreeproc(m3, p, null) EXCEPT !.ret = 0]
        ELSE Then(Ukvminit([m3 EXCEPT !.procs[p].pagetable = m3.ret]), LAMBDA m4 :
          IF m4.panic # "" THEN m4
          ELSE IF m4.ret = 0
          THEN [VmFreeproc([m4 EXCEPT !.procs[p].kpagetable = 0], p, null) EXCEPT !.ret = 0]
          ELSE Then(Kalloc([m4 EXCEPT !.procs[p].kpagetable = m4.ret]), LAMBDA m5 :
            IF m5.ret = 0 THEN [m5 EXCEPT !.panic = "kalloc"]
            ELSE [Ukvmmap(m5, m4.ret, KSTACK(p), m5.ret, {"R", "W"})
                    EXCEPT !.procs[p].kstack = KSTACK(p), !.ret = p])))))

\* kfork's memory side for the new slot np of parent p: ret is np, or -1
VmKforkMem(m, p, np, null) ==
  Then(VmAllocproc(m, np, null), LAMBDA m1 :
    IF m1.panic # "" THEN m1
    ELSE IF m1.ret = 0 THEN [m1 EXCEPT !.ret = -1]
    ELSE Then(UvmcopyFrom(m1, m1.procs[p].pagetable, m1.procs[np].pagetable, 0,
                          m1.procs[p].sz), LAMBDA m2 :
      IF m2.panic # "" THEN m2
      ELSE IF m2.ret < 0 THEN [VmFreeproc(m2, np, null) EXCEPT !.ret = -1]
      ELSE Then(U2kvmcopy([m2 EXCEPT !.procs[np].sz = m2.procs[p].sz],
                          m2.procs[np].pagetable, m2.procs[np].kpagetable, 0,
                          m2.procs[p].sz), LAMBDA m3 :
        IF m3.panic # "" THEN m3
        ELSE IF m3.ret < 0 THEN [VmFreeproc(m3, np, null) EXCEPT !.ret = -1]
        ELSE [m3 EXCEPT !.procs[np].a1 = m3.procs[p].a1, !.ret = np])))

\* growproc(n): ret is 0 or -1.  sz + n is unsigned: below zero it wraps to
\* a size above sz and uvmdealloc does nothing
Growproc(m, p, n) ==
  IF n > 0
  THEN IF m.procs[p].sz + n > TRAPFRAME THEN [m EXCEPT !.ret = -1]
       ELSE Then(Uvmalloc(m, m.procs[p].pagetable, m.procs[p].sz, m.procs[p].sz + n, {"W"}),
              LAMBDA m1 :
         IF m1.panic # "" THEN m1
         ELSE IF m1.ret = 0 THEN [m1 EXCEPT !.ret = -1]
         ELSE [U2kvmcopy(m1, m.procs[p].pagetable, m.procs[p].kpagetable,
                         m.procs[p].sz, m1.ret)
                 EXCEPT !.procs[p].sz = m1.ret, !.ret = 0])
  ELSE IF n < 0 /\ m.procs[p].sz + n >= 0
  THEN Then(Uvmdealloc(m, m.procs[p].pagetable, m.procs[p].sz, m.procs[p].sz + n),
         LAMBDA m1 : [m1 EXCEPT !.procs[p].sz = m1.ret, !.ret = 0])
  ELSE [m EXCEPT !.ret = 0]

\* walkaddr(pagetable, va): ret is the frame, or 0
Walkaddr(m, pagetable, va) ==
  IF va >= MAXVA THEN [m EXCEPT !.ret = 0]
  ELSE Then(Walk(m, pagetable, va, FALSE), LAMBDA m1 :
         IF m1.panic # "" \/ m1.ret = 0 THEN m1
         ELSE IF ~PteAt(m1, va).v \/ "U" \notin PteAt(m1, va).perm THEN [m1 EXCEPT !.ret = 0]
         ELSE [m1 EXCEPT !.ret = PteAt(m1, va).pa])

\* ismapped(pagetable, va)
Ismapped(m, pagetable, va) ==
  Walk(m, pagetable, va, FALSE).ret # 0 /\ PteAt(Walk(m, pagetable, va, FALSE), va).v

\* (mutant: vmfault that keeps the frame when mappages fails)
VmfaultKeepsFrame(m, p, pagetable, va) ==
  IF va >= m.procs[p].sz THEN [m EXCEPT !.ret = 0]
  ELSE IF Ismapped(m, pagetable, va) THEN [m EXCEPT !.ret = 0]
  ELSE Then(Kalloc(m), LAMBDA m1 :
         IF m1.ret = 0 THEN m1
         ELSE Then(Mappages(m1, m.procs[p].pagetable, va, m1.ret, {"W", "U", "R"}),
                LAMBDA m2 :
                  IF m2.panic # "" THEN m2
                  ELSE IF m2.ret # 0 THEN [m2 EXCEPT !.ret = 0]
                  ELSE [m2 EXCEPT !.ret = m1.ret]))
\* (mutant: vmfault that does not look whether the page is mapped)
VmfaultMutant(m, p, pagetable, va) ==
  IF va >= m.procs[p].sz THEN [m EXCEPT !.ret = 0]
  ELSE Then(Kalloc(m), LAMBDA m1 :
         IF m1.ret = 0 THEN m1
         ELSE [m1 EXCEPT !.pt[Walk(m1, pagetable, va, FALSE).ret][PX(0, va)] =
                           [v |-> TRUE, pa |-> m1.ret, perm |-> {"W", "U", "R"}]])
\* vmfault(pagetable, va, read) called by the process p: ret is the new
\* frame, or 0
Vmfault(m, p, pagetable, va) ==
  IF va >= m.procs[p].sz THEN [m EXCEPT !.ret = 0]
  ELSE IF Ismapped(m, pagetable, va) THEN [m EXCEPT !.ret = 0]
  ELSE Then(Kalloc(m), LAMBDA m1 :
         IF m1.ret = 0 THEN m1
         ELSE Then(Mappages(m1, m.procs[p].pagetable, va, m1.ret, {"W", "U", "R"}),
                LAMBDA m2 :
                  IF m2.panic # "" THEN m2
                  ELSE IF m2.ret # 0 THEN [Kfree(m2, m1.ret) EXCEPT !.ret = 0]
                  ELSE [m2 EXCEPT !.ret = m1.ret]))

\* copyout(pagetable, dstva, src, len) within one page: ret is 0 or -1
Copyout(m, p, pagetable, va) ==
  IF va >= MAXVA THEN [m EXCEPT !.ret = -1]
  ELSE Then(Walkaddr(m, pagetable, va), LAMBDA m1 :
         Then(IF m1.ret = 0 THEN Vmfault(m1, p, pagetable, va) ELSE m1, LAMBDA m2 :
           IF m2.panic # "" THEN m2
           ELSE IF m2.ret = 0 THEN [m2 EXCEPT !.ret = -1]
           ELSE IF "W" \notin PteAt(Walk(m2, pagetable, va, FALSE), va).perm
           THEN [m2 EXCEPT !.ret = -1]
           ELSE [m2 EXCEPT !.ret = 0]))

\* usertrap, scause 13 or 15, stval = va; cow is what cow_handler returns
UsertrapFault(m, p, va, cow) ==
  Then(Walk(m, m.procs[p].pagetable, va, FALSE), LAMBDA m1 :
    IF m1.panic # "" THEN m1
    ELSE [m EXCEPT !.procs[p].killed =
            IF \/ va >= m.procs[p].sz
               \/ m1.ret = 0
               \/ ~PteAt(m1, va).v
               \/ "COW" \notin PteAt(m1, va).perm
               \/ cow = -1
            THEN 1 ELSE @,
          !.ret = 0])

\* where kexec gives up: "" is nowhere
ExecFailures == {"", "elf", "loadseg", "args"}

\* kexec's bad: the new table is freed
ExecBad(m, pagetable, sz) ==
  [(IF pagetable # 0 THEN ProcFreepagetable(m, pagetable, sz) ELSE m) EXCEPT !.ret = -1]

\* kexec(path, argv) by the process p: an image with one segment of seg
\* pages, the guard page and USERSTACK pages of stack; ret is argc (0) or -1
Kexec(m, p, seg, fail) ==
  IF fail = "elf" THEN ExecBad(m, 0, 0)
  ELSE Then(ProcPagetable(m, m.procs[p].trapframe), LAMBDA m1 :
    IF m1.panic # "" THEN m1
    ELSE IF m1.ret = 0 THEN ExecBad(m1, 0, 0)
    ELSE Then(Uvmalloc(m1, m1.ret, 0, seg, {"X"}), LAMBDA m2 :
      IF m2.panic # "" THEN m2
      ELSE IF m2.ret = 0 THEN ExecBad(m2, m1.ret, 0)
      ELSE IF fail = "loadseg" THEN ExecBad(m2, m1.ret, seg)
      ELSE Then(Uvmalloc(m2, m1.ret, seg, seg + USERSTACK + 1, {"W"}), LAMBDA m3 :
        IF m3.panic # "" THEN m3
        ELSE IF m3.ret = 0 THEN ExecBad(m3, m1.ret, seg)
        ELSE Then(Walk(m3, m1.ret, seg, FALSE), LAMBDA m4 :
          IF fail = "args"
          THEN ExecBad([m4 EXCEPT !.pt[m4.ret][PX(0, seg)].perm = @ \ {"U"}],
                       m1.ret, seg + USERSTACK + 1)
          ELSE Then(Uvmunmap([m4 EXCEPT !.pt[m4.ret][PX(0, seg)].perm = @ \ {"U"},
                                        !.procs[p].a1 = seg + USERSTACK + 1],
                             m.procs[p].kpagetable, 0, m.procs[p].sz, FALSE), LAMBDA m5 :
            Then(U2kvmcopy(m5, m1.ret, m.procs[p].kpagetable, 0, seg + USERSTACK + 1),
                 LAMBDA m6 :
              IF m6.panic # "" THEN m6
              ELSE IF m6.ret < 0 THEN ExecBad(m6, m1.ret, seg + USERSTACK + 1)
              ELSE [ProcFreepagetable([m6 EXCEPT !.procs[p].pagetable = m1.ret,
                                                 !.procs[p].sz = seg + USERSTACK + 1],
                                      m.procs[p].pagetable, m.procs[p].sz)
                      EXCEPT !.ret = 0]))))))

\* the memory as the calls above take it, and back
VmCur == [free |-> kmem, ref |-> page_ref, pt |-> pages, procs |-> vproc,
          panic |-> "", ret |-> 0]
VmStore(m, op, p, arg) ==
  /\ vmlast' = [op |-> op, p |-> p, arg |-> arg, n |-> vmlast.n + 1,
                ret |-> IF m.panic # "" THEN 0 ELSE m.ret]
  /\ IF m.panic # ""
     THEN /\ panicked' = m.panic
          /\ UNCHANGED <<kmem, page_ref, pages, vproc>>
     ELSE /\ kmem' = m.free
          /\ page_ref' = m.ref
          /\ pages' = m.pt
          /\ vproc' = m.procs
          /\ UNCHANGED panicked
  /\ UNCHANGED nonVm

\* a process that is in the kernel on its own behalf
VmRunning(p) ==
  panicked = "" /\ vmlast.n < MaxVmOps /\ vproc[p].used /\ vproc[p].killed = 0

\* allocproc's scan: the first UNUSED slot, 0 when there is none
VmFirstUnused == MinOf({i \in VmProcs : ~vproc[i].used})

\* the outcomes freeproc may meet on the slot np
VmNullChoices(np) ==
  IF np # 0 /\ vproc[np].kstack # 0 /\ vproc[np].kpagetable = 0
  THEN NullWalkOutcomes ELSE {-2}

\* kfork() by p
VmKfork(p, null) ==
  /\ VmRunning(p)
  /\ IF VmFirstUnused = 0
     THEN VmStore([VmCur EXCEPT !.ret = -1], "kfork", p, 0)
     ELSE VmStore(VmKforkMem(VmCur, p, VmFirstUnused, null), "kfork", p, VmFirstUnused)

\* kexit by p and the kwait of its parent that finds it: freeproc(p)
VmReap(p) ==
  /\ panicked = "" /\ vmlast.n < MaxVmOps
  /\ vproc[p].used /\ p # 1
  /\ VmStore(VmFreeproc(VmCur, p, -2), "freeproc", p, 0)

\* growproc(n) by p
VmGrowproc(p, n) ==
  /\ VmRunning(p)
  /\ VmStore(Growproc(VmCur, p, n), "growproc", p, n)

\* sbrk(n) with n > 0 in its lazy form: the size grows and no page is
\* mapped
SbrkLazy(m, p, n) ==
  IF m.procs[p].sz + n > TRAPFRAME THEN [m EXCEPT !.ret = -1]
  ELSE [m EXCEPT !.procs[p].sz = @ + n, !.ret = m.procs[p].sz]
VmSbrkLazy(p, n) ==
  /\ VmRunning(p)
  /\ n > 0
  /\ VmStore(SbrkLazy(VmCur, p, n), "sbrk", p, n)

\* kexec(path, argv) by p
VmKexec(p, seg, fail) ==
  /\ VmRunning(p)
  /\ VmStore(Kexec(VmCur, p, seg, fail), "kexec", p, seg)

\* p takes a load or store page fault at va
VmUsertrapFault(p, va, cow) ==
  /\ VmRunning(p)
  /\ VmStore(UsertrapFault(VmCur, p, va, cow), "pagefault", p, va)

\* a system call of p that copies a result out to va
VmCopyout(p, va) ==
  /\ VmRunning(p)
  /\ VmStore(Copyout(VmCur, p, vproc[p].pagetable, va), "copyout", p, va)

\* the addresses user code is given to touch
VmAddrs == (0..MaxVa) \cup {MAXVA}

VmNext ==
  \/ \E p \in VmProcs : \E null \in VmNullChoices(VmFirstUnused) : VmKfork(p, null)
  \/ \E p \in VmProcs : VmReap(p)
  \/ \E p \in VmProcs, n \in (-MaxGrow)..MaxGrow : VmGrowproc(p, n)
  \/ \E p \in VmProcs, n \in 1..MaxGrow : VmSbrkLazy(p, n)
  \/ \E p \in VmProcs, seg \in {1, MaxSeg}, fail \in ExecFailures : VmKexec(p, seg, fail)
  \/ \E p \in VmProcs, va \in VmAddrs, cow \in {0, -1} : VmUsertrapFault(p, va, cow)
  \/ \E p \in VmProcs, va \in VmAddrs : VmCopyout(p, va)

\* kinit, procinit and userinit: every frame on the free list in the order
\* freerange pushed them, then allocproc for initproc
VmBoot ==
  VmAllocproc([free |-> [k \in 1..NFRAME |-> NFRAME + 1 - k],
               ref |-> [f \in Frames |-> -1],
               pt |-> [f \in Frames |-> ZeroPage],
               procs |-> [i \in VmProcs |-> VmProcUnused(i)],
               panic |-> "", ret |-> 0], 1, -2)
VmInitVars ==
  /\ kmem = VmBoot.free
  /\ page_ref = VmBoot.ref
  /\ pages = VmBoot.pt
  /\ vproc = VmBoot.procs
  /\ vmlast = [op |-> "userinit", p |-> 1, arg |-> 0, n |-> 0, ret |-> 1]

----------------------------------------------------------------------------
(***************************************************************************)
(* Properties of SpecVm.                                                   *)
(***************************************************************************)
\* the entries of level-0 tables reachable from the root of a page table
VmLeaves(root) ==
  LET l1 == {pages[root][k].pa : k \in {j \in 0..(PTES - 1) : pages[root][j].v}}
      l0 == UNION {{pages[t][k].pa : k \in {j \in 0..(PTES - 1) : pages[t][j].v}} : t \in l1}
  IN UNION {{pages[t][k] : k \in {j \in 0..(PTES - 1) : pages[t][j].v}} : t \in l0}
\* the frames a page table maps
VmMapped(root) == {pte.pa : pte \in VmLeaves(root)} \cap Frames
\* the page tables of the processes
VmRoots ==
  ({vproc[p].pagetable : p \in VmProcs} \cup {vproc[p].kpagetable : p \in VmProcs}) \ {0}
VmFree == {kmem[k] : k \in 1..Len(kmem)}

\* C13: no frame on the free list is mapped by a valid leaf entry of a
\* process's user page table or kernel page table.
C13_FreeNotMapped ==
  \A root \in VmRoots : VmMapped(root) \cap VmFree = {}

\* growproc shrank the image and left a freed frame mapped in p->kpagetable
C13_ShrinkLeavesMapping ==
  /\ vmlast.op = "growproc" /\ vmlast.arg < 0 /\ panicked = ""
  /\ VmMapped(vproc[vmlast.p].kpagetable) \cap VmFree # {}
  /\ VmMapped(vproc[vmlast.p].pagetable) \cap VmFree = {}

\* the step is p taking a page fault at va
VmFaultStep(p, va) ==
  /\ vmlast'.n = vmlast.n + 1 /\ vmlast'.op = "pagefault"
  /\ vmlast'.p = p /\ vmlast'.arg = va
  /\ panicked' = ""
\* va is below p's size, not mapped, and vmfault has the memory to fill it
VmLazyPage(p, va) ==
  /\ va < vproc[p].sz
  /\ ~Ismapped(VmCur, vproc[p].pagetable, va)
  /\ Vmfault(VmCur, p, vproc[p].pagetable, va).ret # 0

\* C14: a page fault of a process at an address below its size whose page
\* is not mapped maps one frame taken from the free list at that page, user
\* accessible, and leaves the process not killed.
C14_FaultFillsPage ==
  [][\A p \in VmProcs, va \in 0..MaxVa :
       VmFaultStep(p, va) /\ VmLazyPage(p, va)
         => /\ vproc'[p].killed = 0
            /\ Walkaddr(VmCur', vproc'[p].pagetable, va).ret \in VmFree
            /\ Len(kmem') < Len(kmem)]_vars

\* a process was killed by its fault on a page that vmfault would have filled
C14_LazyFaultKills ==
  /\ vmlast.op = "pagefault" /\ panicked = ""
  /\ vproc[vmlast.p].killed = 1
  /\ vmlast.arg < vproc[vmlast.p].sz
  /\ ~Ismapped(VmCur, vproc[vmlast.p].pagetable, vmlast.arg)
  /\ Len(kmem) > 3

\* the entry a page table holds for va (the zero entry when walk finds none)
VmPte(root, va) ==
  IF Walk(VmCur, root, va, FALSE).ret = 0 THEN ZeroPte
  ELSE PteAt(Walk(VmCur, root, va, FALSE), va)
\* the step is a kexec of p that returned -1
VmExecFailStep(p) ==
  /\ vmlast'.n = vmlast.n + 1 /\ vmlast'.op = "kexec"
  /\ vmlast'.p = p /\ vmlast'.ret = -1
  /\ panicked' = ""

\* C16: a kexec that returns -1 has freed every frame it allocated and has
\* left p->pagetable, p->sz, the user mappings, their copies in p->kpagetable
\* and the user registers of the trapframe as they were.
C16_ExecFailureKeepsImage ==
  [][\A p \in VmProcs :
       VmExecFailStep(p)
         => /\ VmFree' = VmFree
            /\ vproc'[p].pagetable = vproc[p].pagetable
            /\ vproc'[p].sz = vproc[p].sz
            /\ vproc'[p].a1 = vproc[p].a1
            /\ \A va \in 0..(MaxSeg + USERSTACK) :
                 va < vproc[p].sz
                   => /\ VmPte(vproc[p].pagetable, va)' = VmPte(vproc[p].pagetable, va)
                      /\ VmPte(vproc[p].kpagetable, va)' = VmPte(vproc[p].kpagetable, va)]_vars

----------------------------------------------------------------------------
(***************************************************************************)
(* SpecWritei: writei and bmap on one locked inode (kernel/fs.c).  A uint  *)
(* has WordBits bits.  The inode is [size, addrs, ind]: addrs is the set   *)
(* of logical block numbers that have a block, ind says that the indirect  *)
(* block exists.  A call is given the number of blocks balloc can still    *)
(* hand out and the chunk at which either_copyin fails.                    *)
(***************************************************************************)
UINT == 2 ^ WordBits
\* uint arithmetic
U(x) == x % UINT
MAXFILE == NDIRECT + NINDIRECT
Min2(a, b) == IF a < b THEN a ELSE b

\* bmap(ip, bn) inside the loop state w: ok says that it returned a block
Bmap(w, bn) ==
  IF bn < NDIRECT
  THEN IF bn \in w.ip.addrs THEN [w EXCEPT !.ok = TRUE]
       ELSE IF w.avail = 0 THEN [w EXCEPT !.ok = FALSE]
       ELSE [w EXCEPT !.ip.addrs = @ \cup {bn}, !.avail = @ - 1, !.ok = TRUE]
  ELSE IF bn - NDIRECT < NINDIRECT
  THEN IF ~w.ip.ind /\ w.avail = 0 THEN [w EXCEPT !.ok = FALSE]
       ELSE Then(IF w.ip.ind THEN w ELSE [w EXCEPT !.ip.ind = TRUE, !.avail = @ - 1],
              LAMBDA w1 :
                IF bn \in w1.ip.addrs THEN [w1 EXCEPT !.ok = TRUE]
                ELSE IF w1.avail = 0 THEN [w1 EXCEPT !.ok = FALSE]
                ELSE [w1 EXCEPT !.ip.addrs = @ \cup {bn}, !.avail = @ - 1, !.ok = TRUE])
  ELSE [w EXCEPT !.panic = "bmap: out of range", !.ok = FALSE]

\* (mutant: the range check without the test for wrap-around)
WriteiRejectsMutant(size, off, n) ==
  off > size \/ U(off + n) > MAXFILE * BSIZE
\* the checks of writei before its loop
WriteiRejects(size, off, n) ==
  \/ off > size
  \/ U(off + n) < off
  \/ U(off + n) > MAXFILE * BSIZE

\* m of writei's loop
WriteiChunk(w, n) == Min2(n - w.tot, BSIZE - (w.off % BSIZE))
\* the loop of writei: w is [ip, off, tot, chunk, avail, written, ok, panic]
RECURSIVE WriteiLoop(_, _, _)
WriteiLoop(w, n, bad) ==
  IF w.tot >= n THEN w
  ELSE Then(Bmap(w, w.off \div BSIZE), LAMBDA w1 :
         IF w1.panic # "" \/ ~w1.ok THEN w1
         ELSE IF w1.chunk = bad THEN w1
         ELSE WriteiLoop(
                [w1 EXCEPT !.written = @ \cup
                             (w.off .. (w.off + WriteiChunk(w, n) - 1)),
                           !.tot = U(@ + WriteiChunk(w, n)),
                           !.off = U(@ + WriteiChunk(w, n)),
                           !.chunk = @ + 1],
                n, bad))

\* writei(ip, user_src, src, off, n): [ip, ret, written, panic]
Writei(ip, off, n, avail, bad) ==
  IF WriteiRejects(ip.size, off, n)
  THEN [ip |-> ip, ret |-> -1, written |-> {}, panic |-> ""]
  ELSE Then(WriteiLoop([ip |-> ip, off |-> off, tot |-> 0, chunk |-> 1, avail |-> avail,
                        written |-> {}, ok |-> TRUE, panic |-> ""], n, bad),
         LAMBDA w :
           [ip |-> IF w.off > w.ip.size THEN [w.ip EXCEPT !.size = w.off] ELSE w.ip,
            ret |-> w.tot, written |-> w.written, panic |-> w.panic])

\* the offsets and lengths callers pass: around the largest file size and
\* around the largest uint
WriteiOffs == (0..(MAXFILE * BSIZE + 1)) \cup {UINT - 1}
WriteiLens == (0..MaxWriteLen) \cup {UINT - MAXFILE * BSIZE, UINT - 1}

\* the record of a call that is not a writei
WriteiNoCall(op) ==
  [op |-> op, off |-> 0, n |-> 0, avail |-> 0, bad |-> 0, size0 |-> 0, addrs0 |-> {},
   ret |-> 0, written |-> {}]
\* the blocks balloc has left when a call starts: none, one, enough
WriteiAvail == {0, 1, MAXFILE + 1}

\* a process calls writei on the inode it has locked
WriteiCall(off, n, avail, bad) ==
  /\ panicked = ""
  /\ \E r \in {Writei(winode, off, n, avail, bad)} :
       /\ wlast' = [op |-> "writei", off |-> off, n |-> n, avail |-> avail, bad |-> bad,
                    size0 |-> winode.size, addrs0 |-> winode.addrs,
                    ret |-> r.ret, written |-> r.written]
       /\ IF r.panic # ""
          THEN /\ panicked' = r.panic
               /\ UNCHANGED winode
          ELSE /\ winode' = r.ip
               /\ UNCHANGED panicked
  /\ UNCHANGED nonWritei

\* itrunc(ip)
Itrunc ==
  /\ panicked = ""
  /\ winode' = [size |-> 0, addrs |-> {}, ind |-> FALSE]
  /\ wlast' = WriteiNoCall("itrunc")
  /\ UNCHANGED <<panicked, nonWritei>>

WriteiNext ==
  \/ \E off \in WriteiOffs, n \in WriteiLens, avail \in WriteiAvail, bad \in 0..2 :
       WriteiCall(off, n, avail, bad)
  \/ Itrunc

\* ialloc: an empty file
WriteiInitVars ==
  /\ winode = [size |-> 0, addrs |-> {}, ind |-> FALSE]
  /\ wlast = WriteiNoCall("ialloc")

\* C15: a writei with off + n above MAXFILE * BSIZE (off = MAXFILE * BSIZE
\* with n >= 1, or a sum that wraps around as a uint) returns -1, writes no
\* byte and leaves the size and the blocks of the file alone; one byte at
\* offset MAXFILE * BSIZE - 1 of a file that reaches there, with a block and
\* a readable source, is written and the call returns 1.
C15_WriteiBoundary ==
  /\ wlast.op = "writei" /\ wlast.off + wlast.n > MAXFILE * BSIZE
       => /\ wlast.ret = -1 /\ wlast.written = {}
          /\ winode.size = wlast.size0 /\ winode.addrs = wlast.addrs0
          /\ panicked = ""
  /\ ( /\ wlast.op = "writei" /\ wlast.off = MAXFILE * BSIZE - 1 /\ wlast.n = 1
       /\ wlast.off <= wlast.size0
       /\ (wlast.avail > 1 \/ MAXFILE - 1 \in wlast.addrs0)
       /\ wlast.bad # 1 )
       => /\ wlast.ret = 1 /\ wlast.written = {MAXFILE * BSIZE - 1}
          /\ winode.size = MAXFILE * BSIZE

\* the last byte of the largest file has been written
C15_Witness ==
  /\ wlast.op = "writei" /\ wlast.off = MAXFILE * BSIZE - 1 /\ wlast.n = 1 /\ wlast.ret = 1
  /\ wlast.size0 = MAXFILE * BSIZE - 1
  /\ winode.size = MAXFILE * BSIZE

\* the slot the scan of hart h's kkill(pid) looks at in this pass
KkillAt(h) == IF kctx[Me(h)].pc = "user" THEN 1 ELSE kctx[Me(h)].i
\* kkill on a SLEEPING process sets killed and makes it RUNNABLE
KillWakesSleeper ==
  \A h \in Harts, pid \in 1..MaxPid :
    (Kkill(h, pid) /\ proc[KkillAt(h)].pid = pid /\ proc[KkillAt(h)].state = "SLEEPING")
      => proc'[KkillAt(h)].killed = 1 /\ proc'[KkillAt(h)].state = "RUNNABLE"
\* the next thing a process found killed by usertrap does is kexit(-1)
KilledExits ==
  \A h \in Harts :
    (At(h, {"user"}) /\ Me(h) # initproc /\ proc[Me(h)].killed = 1
       /\ kctx'[Me(h)] # kctx[Me(h)])
      => kctx'[Me(h)].status = -1
\* the slot i holds a process that is marked killed
KilledAlive(i) == proc[i].killed = 1 /\ proc[i].state \notin {"UNUSED", "ZOMBIE"}
\* the process of slot i is marked killed and is at usertrap (not inside a
\* system call, where it may sleep: kwait that saw killed(p) false before
\* kkill ran goes to sleep with the flag set)
KilledTrapping(i) == KilledAlive(i) /\ kctx[i].pc = "user"

-----------------------------------------------------------------------------
(* spinlock.c: acquire, release, holding, push_off, pop_off.  A hart's record *)
(* holds struct cpu's noff and intena, the interrupt enable bit (intr), and   *)
(* two ghosts: held, the locks between the hart's successful test-and-set and *)
(* its __sync_lock_release, and npush, its push_off calls not yet matched.    *)

SpinHarts == 1..NSPINHART
SpinLocks == 1..NLOCK

\* initlock
Initlock == [locked |-> 0, cpu |-> 0]
\* holding(lk) on hart h
Holding(lk, h) == lk.locked = 1 /\ lk.cpu = h

\* (mutant: a test-and-set that stores 1 and reports the lock free)
TestAndSetMutant(lk) == [old |-> 0, lk |-> [lk EXCEPT !.locked = 1]]
\* __sync_lock_test_and_set(&lk->locked, 1): the former value, and the lock
TestAndSet(lk) == [old |-> lk.locked, lk |-> [lk EXCEPT !.locked = 1]]

\* (mutant: pop_off that turns interrupts on whatever the depth)
PopOffMutant(c) ==
  IF c.intr = 1 THEN [c EXCEPT !.pc = "panic: pop_off - interruptible"]
  ELSE IF c.noff < 1 THEN [c EXCEPT !.pc = "panic: pop_off"]
  ELSE [c EXCEPT !.noff = @ - 1, !.intr = c.intena]
\* push_off on a hart record
PushOff(c) ==
  [c EXCEPT !.intr = 0, !.intena = IF c.noff = 0 THEN c.intr ELSE @, !.noff = @ + 1]
\* pop_off on a hart record (pc names the panic, if any)
PopOff(c) ==
  IF c.intr = 1 THEN [c EXCEPT !.pc = "panic: pop_off - interruptible"]
  ELSE IF c.noff < 1 THEN [c EXCEPT !.pc = "panic: pop_off"]
  ELSE [c EXCEPT !.noff = @ - 1,
                 !.intr = IF c.noff = 1 /\ c.intena = 1 THEN 1 ELSE @]

SpinIdle(h) == panicked = "" /\ scpu[h].pc = "idle"
SpinAt(h, pc) == panicked = "" /\ scpu[h].pc = pc

\* intr_on() where the kernel calls it (scheduler, usertrap) or sret: no lock
\* is held and no push_off is outstanding
SpinIntrOn(h) ==
  /\ SpinIdle(h) /\ scpu[h].noff = 0 /\ scpu[h].intr = 0
  /\ scpu' = [scpu EXCEPT ![h].intr = 1]
  /\ UNCHANGED <<spin, panicked>>
  /\ UNCHANGED nonSpin

\* intr_off() (scheduler, prepare_return) or the entry of a trap
SpinIntrOff(h) ==
  /\ SpinIdle(h) /\ scpu[h].noff = 0 /\ scpu[h].intr = 1
  /\ scpu' = [scpu EXCEPT ![h].intr = 0]
  /\ UNCHANGED <<spin, panicked>>
  /\ UNCHANGED nonSpin

\* push_off() called on its own (cpuid/myproc callers)
SpinPushOff(h) ==
  /\ SpinIdle(h) /\ scpu[h].noff < MaxNoff
  /\ scpu' = [scpu EXCEPT ![h] = [PushOff(@) EXCEPT !.npush = @ + 1]]
  /\ UNCHANGED <<spin, panicked>>
  /\ UNCHANGED nonSpin

\* pop_off() that matches a push_off called on its own
SpinPopOff(h) ==
  /\ SpinIdle(h) /\ scpu[h].npush > 0
  /\ \E c \in {PopOff(scpu[h])} :
       /\ scpu' = [scpu EXCEPT ![h] = [c EXCEPT !.npush = @ - 1, !.pc = "idle"]]
       /\ panicked' = IF c.pc = "idle" THEN panicked ELSE c.pc
  /\ UNCHANGED spin
  /\ UNCHANGED nonSpin

\* acquire(lk): push_off()
SpinAcquire(h, l) ==
  /\ SpinIdle(h) /\ scpu[h].noff < MaxNoff
  /\ scpu' = [scpu EXCEPT ![h] = [PushOff(@) EXCEPT !.pc = "holding", !.lk = l]]
  /\ UNCHANGED <<spin, panicked>>
  /\ UNCHANGED nonSpin

\* acquire: if(holding(lk)) panic("acquire")
SpinAcquireHolding(h) ==
  /\ SpinAt(h, "holding")
  /\ IF Holding(spin[scpu[h].lk], h)
     THEN panicked' = "acquire" /\ UNCHANGED scpu
     ELSE scpu' = [scpu EXCEPT ![h].pc = "swap"] /\ UNCHANGED panicked
  /\ UNCHANGED spin
  /\ UNCHANGED nonSpin

\* acquire: one round of the while loop; it ends when the swap returns 0
SpinAcquireSwap(h) ==
  /\ SpinAt(h, "swap")
  /\ \E r \in {TestAndSet(spin[scpu[h].lk])} :
       /\ spin' = [spin EXCEPT ![scpu[h].lk] = r.lk]
       /\ scpu' = IF r.old = 0
                  THEN [scpu EXCEPT ![h].pc = "setcpu", ![h].held = @ \cup {scpu[h].lk}]
                  ELSE scpu
  /\ UNCHANGED panicked
  /\ UNCHANGED nonSpin

\* acquire: lk->cpu = mycpu()
SpinAcquireCpu(h) ==
  /\ SpinAt(h, "setcpu")
  /\ spin' = [spin EXCEPT ![scpu[h].lk].cpu = h]
  /\ scpu' = [scpu EXCEPT ![h].pc = "idle"]
  /\ UNCHANGED panicked
  /\ UNCHANGED nonSpin

\* release(lk): if(!holding(lk)) panic("release"); lk->cpu = 0
SpinRelease(h, l) ==
  /\ SpinIdle(h)
  /\ IF Holding(spin[l], h)
     THEN /\ spin' = [spin EXCEPT ![l].cpu = 0]
          /\ scpu' = [scpu EXCEPT ![h].pc = "unlock", ![h].lk = l]
          /\ UNCHANGED panicked
     ELSE panicked' = "release" /\ UNCHANGED <<spin, scpu>>
  /\ UNCHANGED nonSpin

\* release: __sync_lock_release(&lk->locked)
SpinReleaseUnlock(h) ==
  /\ SpinAt(h, "unlock")
  /\ spin' = [spin EXCEPT ![scpu[h].lk].locked = 0]
  /\ scpu' = [scpu EXCEPT ![h].pc = "pop_off", ![h].held = @ \ {scpu[h].lk}]
  /\ UNCHANGED panicked
  /\ UNCHANGED nonSpin

\* release: pop_off()
SpinReleasePop(h) ==
  /\ SpinAt(h, "pop_off")
  /\ \E c \in {PopOff(scpu[h])} :
       /\ scpu' = [scpu EXCEPT ![h] = [c EXCEPT !.pc = "idle"]]
       /\ panicked' = IF c.pc = "pop_off" THEN panicked ELSE c.pc
  /\ UNCHANGED spin
  /\ UNCHANGED nonSpin

SpinNext ==
  \/ \E h \in SpinHarts : SpinIntrOn(h)
  \/ \E h \in SpinHarts : SpinIntrOff(h)
  \/ \E h \in SpinHarts : SpinPushOff(h)
  \/ \E h \in SpinHarts : SpinPopOff(h)
  \/ \E h \in SpinHarts, l \in SpinLocks : SpinAcquire(h, l)
  \/ \E h \in SpinHarts : SpinAcquireHolding(h)
  \/ \E h \in SpinHarts : SpinAcquireSwap(h)
  \/ \E h \in SpinHarts : SpinAcquireCpu(h)
  \/ \E h \in SpinHarts, l \in SpinLocks : SpinRelease(h, l)
  \/ \E h \in SpinHarts : SpinReleaseUnlock(h)
  \/ \E h \in SpinHarts : SpinReleasePop(h)

\* after initlock of every lock, on harts that run with interrupts off
SpinInitVars ==
  /\ spin = [l \in SpinLocks |-> Initlock]
  /\ scpu = [h \in SpinHarts |->
               [pc |-> "idle", lk |-> 0, noff |-> 0, intena |-> 0, intr |-> 0,
                npush |-> 0, held |-> {}]]

\* the harts inside the critical section of lock l
SpinHolders(l) == {h \in SpinHarts : l \in scpu[h].held}

\* C18: at most one hart holds a given spin lock (a hart named by lk->cpu of
\* a locked lock is the one that won the test-and-set and has not released
\* it), and a hart that holds a spin lock has interrupts disabled.
C18_SpinMutex ==
  /\ \A l \in SpinLocks :
       /\ Cardinality(SpinHolders(l)) <= 1
       /\ SpinHolders(l) # {} <=> spin[l].locked = 1
       /\ \A h \in SpinHarts : Holding(spin[l], h) => l \in scpu[h].held
  /\ \A h \in SpinHarts : scpu[h].held # {} => scpu[h].intr = 0 /\ scpu[h].noff > 0

\* a hart holds a lock, with interrupts that were on before its acquire, and
\* another hart spins on that lock
C18_Witness ==
  \E h, g \in SpinHarts, l \in SpinLocks :
    /\ Holding(spin[l], h) /\ scpu[h].intena = 1 /\ scpu[h].intr = 0
    /\ g # h /\ scpu[g].pc = "swap" /\ scpu[g].lk = l
    /\ panicked = ""
\* the slots whose process holds the sleep lock: acquiresleep has returned
\* and releasesleep is not yet called
SleepHolders == {i \in ProcSlots : kctx[i].pc = "holding"}
\* the process of slot i is inside acquiresleep, in sleep(lk, &lk->lk)
SleepBlocked(i) == kctx[i].ret = "acquiresleep"

\* at most one process holds the sleep lock; locked is set exactly while one
\* does, and pid names it
SleepMutex ==
  /\ Cardinality(SleepHolders) <= 1
  /\ sl.locked = 1 <=> SleepHolders # {}
  /\ \A i \in SleepHolders : sl.pid = proc[i].pid

\* C19 as stated: at most one process holds the sleep lock, and every process
\* blocked in acquiresleep eventually holds it (unless the kernel halts on a
\* panic).
C19_SleepLockEventually ==
  /\ []SleepMutex
  /\ \A i \in ProcSlots : SleepBlocked(i) ~> (kctx[i].pc = "holding" \/ panicked # "")

\* C19, amended: at most one process holds the sleep lock (locked is set
\* exactly while one does and pid names it), every holder's release leaves
\* the lock free, and while a process is blocked in acquiresleep a free lock
\* is eventually taken, by that process or by one that overtakes it (unless
\* the kernel halts on a panic).
C19_SleepLockProgress ==
  /\ []SleepMutex
  /\ (sl.locked = 1) ~> (sl.locked = 0 \/ panicked # "")
  /\ \A i \in ProcSlots :
       (SleepBlocked(i) /\ sl.locked = 0) ~> (sl.locked = 1 \/ panicked # "")

\* one process holds the sleep lock and another sleeps in acquiresleep
C19_Witness ==
  \E i, j \in ProcSlots :
    /\ kctx[i].pc = "holding" /\ sl.pid = proc[i].pid
    /\ SleepBlocked(j) /\ proc[j].state = "SLEEPING" /\ proc[j].chan = SleepLockChan
\* the log data block of position t (from 1) holds the staged data of the
\* home block the header names there
LogBlockWritten(t) == disk[LOGSTART + t] = gPost[log.block[t]]
\* the header on disk names the transaction of the log in memory
LogHeadWritten ==
  /\ disk[LogHeadBlock].n = log.n
  /\ \A t \in 1..log.n : disk[LogHeadBlock].block[t] = log.block[t]
\* the home block of position t holds what its log block holds
LogHomeWritten(t) == disk[log.block[t]] = disk[LOGSTART + t]

\* what is on disk when commit issues each of its writes
CommitWriteOrder ==
  \A p \in LogProcs :
    /\ LogCommitWriteLog(p) => disk[LogHeadBlock].n = 0
    /\ LogCommitWriteHead(p) =>
         /\ log.n > 0 /\ disk[LogHeadBlock].n = 0
         /\ \A t \in 1..log.n : LogBlockWritten(t)
    /\ LogCommitInstall(p) =>
         /\ log.n > 0 /\ LogHeadWritten
         /\ \A t \in 1..log.n : LogBlockWritten(t)
    /\ LogCommitClear(p) =>
         /\ LogHeadWritten
         /\ \A t \in 1..log.n : LogHomeWritten(t)

\* C20 (commit write ordering): commit writes the header with n > 0 only once
\* every log data block of write_log is on disk, writes a home block only
\* once that header is on disk, and clears the header (n = 0) only once every
\* home block is on disk.
C20_CommitWriteOrder == [][CommitWriteOrder]_vars

\* commit is inside install_trans of a transaction of two blocks: the header
\* on disk names both, the first home block is written and the second is not
C20_Witness ==
  \E p \in LogProcs :
    /\ LogInCommit(p, "install")
    /\ lproc[p].tail = 1
    /\ log.n = 2 /\ LogHeadWritten
    /\ LogHomeWritten(1) /\ ~LogHomeWritten(2)
\* the processes inside an operation, and those inside commit()
LogInOp == {p \in LogProcs : lproc[p].pc = "inop"}
LogCommitters == {p \in LogProcs : lproc[p].pc = "commit"}

\* commit() runs with outstanding == 0 and committing == 1, alone, and
\* outstanding counts the operations between begin_op and end_op
CommitExclusive ==
  /\ Cardinality(LogCommitters) <= 1
  /\ LogCommitters # {} <=> log.committing = 1
  /\ log.committing = 1 => log.outstanding = 0 /\ LogInOp = {}
  /\ boot = "run" => log.outstanding = Cardinality(LogInOp)

\* while committing is set no begin_op is admitted and no log_write happens
CommitQuiet ==
  (log.committing = 1 /\ panicked' = "") =>
    /\ log'.outstanding = 0
    /\ \A p \in LogProcs : lproc'[p].pc # "inop"
    /\ nwrites' = nwrites
    /\ log'.n \in {log.n, 0}

\* C21 (group-commit exclusivity): commit() executes only while
\* log.outstanding == 0 and log.committing == 1; while committing is set no
\* begin_op is admitted and no log_write happens, and at most one process is
\* inside commit(), so a commit writes no update of an unfinished operation.
C21_GroupCommitExclusive == []CommitExclusive /\ [][CommitQuiet]_vars

\* a commit of the updates of two operations is writing its log blocks while
\* the other process waits outside begin_op
C21_Witness ==
  \E p \in LogProcs :
    /\ LogInCommit(p, "write_log")
    /\ log.n = 2 /\ Cardinality(gStaged) = 2
    /\ \A q \in LogProcs \ {p} : lproc[q].pc = "idle"
\* C24 (log space reservation suffices): with at most MAXOPBLOCKS distinct
\* blocks per operation the staged count never exceeds LOGBLOCKS and no
\* log_write panics with "too big a transaction".
C24_ReservationSuffices ==
  /\ log.n <= LOGBLOCKS
  /\ panicked # "too big a transaction"
\* the staged list log.lh.block[0..n) as a set
LogStagedBlocks(lg) == {lg.block[i] : i \in 1..lg.n}
\* the reference count of the buffer bound to block b (0: no buffer holds b)
LogRefcnt(B, b) ==
  IF \E s \in Slots : B[s].blockno = b /\ B[s].refcnt > 0
  THEN B[CHOOSE s \in Slots : B[s].blockno = b /\ B[s].refcnt > 0].refcnt
  ELSE 0

\* no block number is staged twice
LogNoDuplicate ==
  \A i, j \in 1..log.n : i # j => log.block[i] # log.block[j]

\* what a log_write that returns does to n and to the buffer's refcnt
LogWriteAbsorbs ==
  \A p \in LogProcs, b \in HomeBlocks, v \in Values :
    (LogWriteOp(p, b, v) /\ panicked' = "") =>
      IF b \in LogStagedBlocks(log)
      THEN /\ log'.n = log.n /\ log'.block = log.block
           /\ LogRefcnt(buf', b) = LogRefcnt(buf, b)
      ELSE /\ log'.n = log.n + 1 /\ log'.block[log.n + 1] = b
           /\ LogRefcnt(buf', b) = LogRefcnt(buf, b) + 1

\* C23 (log absorption): the staged list never holds a block number twice; a
\* log_write of a staged block leaves n unchanged and does not pin the
\* buffer again, a log_write of a new block adds one to n and pins the
\* buffer once.
C23_LogAbsorption == []LogNoDuplicate /\ [][LogWriteAbsorbs]_vars

\* a transaction of two blocks in which one block was written twice, with
\* other data the second time
C23_Witness ==
  /\ log.n = 2 /\ nwrites = 3 /\ gAbsorbed # {}
  /\ \A b \in LogStagedBlocks(log) : LogRefcnt(buf, b) = 1
  /\ panicked = ""
\* commit() has returned (end_op has not yet cleared committing)
LogCommitDone == \E p \in LogProcs : lproc[p].pc = "commit" /\ lproc[p].step = CommitReturned

\* install_trans(0) of the running commit has passed position t (from 1)
LogUnpinned(t) ==
  \E p \in LogProcs :
    /\ lproc[p].pc = "commit"
    /\ \/ lproc[p].step = CommitReturned
       \/ lproc[p].step \in 1..Len(CommitOrder)
          /\ \/ CommitOrder[lproc[p].step] = "clear"
             \/ CommitOrder[lproc[p].step] = "install" /\ t <= lproc[p].tail

\* the log's pins: while the file system runs, a buffer's refcnt is 1 exactly
\* for the staged blocks install_trans(0) has not reached yet, and 0 once
\* commit() has returned
LogPinBalance ==
  /\ LogCommitDone => \A s \in Slots : buf[s].refcnt = 0
  /\ (boot = "run" /\ panicked = "") =>
       \A b \in AllBlocks :
         LogRefcnt(buf, b) =
           IF \E t \in 1..log.n : log.block[t] = b /\ ~LogUnpinned(t) THEN 1 ELSE 0

\* install_trans(0) unpins the block it installs, once; install_trans(1)
\* leaves every refcnt as it found it
LogInstallUnpins ==
  /\ \A p \in LogProcs :
       (LogCommitInstall(p) /\ panicked' = "") =>
         \A b \in AllBlocks :
           LogRefcnt(buf', b) =
             LogRefcnt(buf, b) - (IF b = log.block[lproc[p].tail + 1] THEN 1 ELSE 0)
  /\ (LogRecoverInstall /\ panicked' = "") =>
       \A b \in AllBlocks : LogRefcnt(buf', b) = LogRefcnt(buf, b)

\* C25 (pin balance): every buffer pinned by log_write is unpinned exactly
\* once by install_trans(0) of that transaction's commit, so after commit()
\* returns no refcnt carries a pin of the log; install_trans in recovery
\* unpins nothing and leaves every refcnt as it found it.
C25_PinBalance == []LogPinBalance /\ [][LogInstallUnpins]_vars

\* commit() has returned for a transaction of two blocks
C25_Witness ==
  /\ LogCommitDone
  /\ Cardinality(gStaged) = 2
  /\ \A b \in gStaged : disk[b] = gPost[b] /\ LogRefcnt(buf, b) = 0
\* a buffer with refcnt > 0 keeps (dev, blockno), and its data once valid
BufKeepsIdentity ==
  \A s \in Slots :
    buf[s].refcnt > 0 =>
      /\ buf'[s].dev = buf[s].dev /\ buf'[s].blockno = buf[s].blockno
      /\ buf[s].valid => (buf'[s].valid /\ buf'[s].data = buf[s].data)

\* C26 (no eviction of a buffer in use): bget reassigns (dev, blockno) and
\* clears valid only on a buffer whose refcnt is 0; a buffer with refcnt > 0
\* keeps its identity and data.
C26_NoEvictionInUse == [][BufKeepsIdentity]_vars

\* bget has just recycled a buffer for a miss while the buffer at the
\* least-recently-used end is still referenced and holds its block
C26_Witness ==
  \E p \in BioProcs :
    /\ bproc[p].pc = "lock"
    /\ ~buf[bproc[p].slot].valid /\ buf[bproc[p].slot].refcnt = 1
    /\ bproc[p].slot # lru[Len(lru)]
    /\ buf[lru[Len(lru)]].refcnt > 0 /\ buf[lru[Len(lru)]].valid
    /\ buf[lru[Len(lru)]].data = disk[buf[lru[Len(lru)]].blockno]

\* the place of slot s in the list, from head.next
LruPos(L, s) == CHOOSE i \in 1..Len(L) : L[i] = s

\* the list holds each buffer once
LruIsPermutation ==
  /\ Len(lru) = NBUF
  /\ \A s \in Slots : \E i \in 1..NBUF : lru[i] = s
  /\ \A i, j \in 1..NBUF : i # j => lru[i] # lru[j]

\* brelse moves the buffer to head.next exactly when refcnt reaches zero and
\* nothing else reorders the list
BrelseMovesAtZero ==
  /\ \A p \in BioProcs :
       BioBrelseDec(p) =>
         IF buf[bproc[p].slot].refcnt = 1
         THEN /\ lru'[1] = bproc[p].slot
              /\ \A s, t \in Slots \ {bproc[p].slot} :
                   LruPos(lru, s) < LruPos(lru, t) => LruPos(lru', s) < LruPos(lru', t)
         ELSE lru' = lru
  /\ (\A p \in BioProcs : ~BioBrelseDec(p)) => lru' = lru

\* on a miss bget takes, of the buffers with refcnt == 0, the one nearest to
\* head.prev
BgetRecyclesLru ==
  \A p \in BioProcs, blk \in BioBlocks :
    (BioBget(p, blk) /\ panicked' = ""
       /\ \A s \in Slots : ~(buf[s].dev = ROOTDEV /\ buf[s].blockno = blk)) =>
      /\ buf[bproc'[p].slot].refcnt = 0
      /\ \A u \in Slots :
           buf[u].refcnt = 0 => LruPos(lru, u) <= LruPos(lru, bproc'[p].slot)

\* C27 (LRU replacement): brelse moves a buffer to the most-recently-used end
\* exactly when its refcnt reaches zero; on a miss bget recycles, of the
\* buffers with refcnt == 0, the one closest to the least-recently-used end;
\* the list always holds each of the NBUF buffers exactly once.
C27_LruReplacement ==
  /\ []LruIsPermutation
  /\ [][BrelseMovesAtZero]_vars
  /\ [][BgetRecyclesLru]_vars

\* a miss recycled a buffer that is neither at the least-recently-used end
\* (that one is referenced) nor at the head, after releases reordered the list
C27_Witness ==
  \E p \in BioProcs :
    /\ bproc[p].pc = "lock"
    /\ ~buf[bproc[p].slot].valid /\ buf[bproc[p].slot].refcnt = 1
    /\ LruPos(lru, bproc[p].slot) \notin {1, NBUF}
    /\ buf[lru[NBUF]].refcnt > 0
    /\ lru # BinitLru
    /\ \A i \in (LruPos(lru, bproc[p].slot) + 1)..NBUF : buf[lru[i]].refcnt > 0
\* interrupts are off on a hart whose nesting depth is above 0
SpinNestedOff == \A h \in SpinHarts : scpu[h].noff > 0 => scpu[h].intr = 0

\* push_off remembers the interrupt state at depth 0 only; pop_off turns
\* interrupts on only at depth 0 and only if intena says so
SpinNestStep ==
  \A h \in SpinHarts :
    /\ scpu'[h].noff > scpu[h].noff =>
         /\ scpu'[h].noff = scpu[h].noff + 1 /\ scpu'[h].intr = 0
         /\ scpu'[h].intena = IF scpu[h].noff = 0 THEN scpu[h].intr ELSE scpu[h].intena
    /\ (scpu'[h].noff < scpu[h].noff /\ panicked' = "") =>
         /\ scpu'[h].noff = scpu[h].noff - 1
         /\ scpu'[h].intr = IF scpu'[h].noff = 0 /\ scpu[h].intena = 1 THEN 1 ELSE 0
    /\ (scpu[h].noff > 0 /\ scpu'[h].noff > 0) => scpu'[h].intena = scpu[h].intena
    /\ (scpu[h].intr = 0 /\ scpu'[h].intr = 1) => scpu'[h].noff = 0

\* C28 (interrupt-disable nesting): on each hart interrupts stay disabled
\* while noff > 0; pop_off re-enables them only when noff returns to 0 and only
\* if they were enabled before the outermost push_off, otherwise they stay
\* disabled.
C28_InterruptNesting == []SpinNestedOff /\ [][SpinNestStep]_vars

\* one hart nested two deep from enabled interrupts, the other nested two deep
\* from disabled interrupts, with a lock among the levels
C28_Witness ==
  /\ scpu[1].noff = 2 /\ scpu[1].intena = 1 /\ scpu[1].held # {} /\ scpu[1].npush = 1
  /\ scpu[2].noff = 2 /\ scpu[2].intena = 0 /\ scpu[2].held # {}
  /\ panicked = ""
\* one pass of wakeup's loop: the slot it visits becomes RUNNABLE if it sleeps
\* on the channel, and no other state changes; the loop goes on to the next
\* slot that is not the caller
WakeupPass ==
  \A h \in Harts :
    Wakeup(h) =>
      /\ kctx[Me(h)].j # Me(h)
      /\ \A k \in ProcSlots :
           proc'[k].state =
             IF /\ k = kctx[Me(h)].j
                /\ proc[k].state = "SLEEPING" /\ proc[k].chan = kctx[Me(h)].wchan
             THEN "RUNNABLE" ELSE proc[k].state
      /\ NextOther(kctx[Me(h)].j, Me(h)) # 0 =>
           /\ kctx'[Me(h)].pc = "wakeup"
           /\ kctx'[Me(h)].j = NextOther(kctx[Me(h)].j, Me(h))
           /\ kctx'[Me(h)].wchan = kctx[Me(h)].wchan

\* every wakeup starts its loop at the first slot that is not the caller
WakeupStart ==
  \A p \in ProcSlots :
    (/\ kctx'[p].pc = "wakeup" /\ kctx'[p] # kctx[p]
     /\ kctx[p].pc # "wakeup" \/ NextOther(kctx[p].j, p) = 0) =>
      kctx'[p].j = NextOther(0, p)

\* C29 (wakeup's effect): wakeup(chan) makes every process that is SLEEPING
\* on chan RUNNABLE and leaves the state of every other process unchanged.
C29_WakeupFrame == [][WakeupPass /\ WakeupStart]_vars

\* releasesleep's wakeup has woken the process that slept on the sleep lock
\* and left a process sleeping in wait asleep
C29_Witness ==
  /\ sl.locked = 0 /\ panicked = ""
  /\ \E k, m \in ProcSlots :
       /\ proc[k].state = "RUNNABLE" /\ kctx[k].pc = "slept" /\ proc[k].killed = 0
       /\ proc[k].chan = SleepLockChan
       /\ proc[m].state = "SLEEPING" /\ proc[m].chan # SleepLockChan
       /\ \A q \in ProcSlots : kctx[q].pc # "wakeup"
\* allocproc up to its failing allocation, or kfork up to its failing uvmcopy:
\* the slot is USED and np->lock stays held
AllocprocUsed(pr, pid, outcome) ==
  IF outcome = "allocproc fails"
  THEN [pr EXCEPT !.pid = pid, !.state = "USED"]
  ELSE Allocproc(pr, pid)

\* kfork -> allocproc as in KforkAlloc, with the failure path stopped between
\* p->state = USED and freeproc
KforkAllocUsed(h, outcome) ==
  /\ Usertrap(h) \/ At(h, {"allocproc"})
  /\ Usertrap(h) => nextpid <= MaxPid
  /\ nextpid > MaxPid => outcome # "ok"
  /\ LET p == Me(h)
         i == IF kctx[p].pc = "user" THEN 1 ELSE kctx[p].i
     IN /\ plock[i] = 0
        /\ IF proc[i].state = "UNUSED"
           THEN IF outcome = "ok"
                THEN ProcStore([Cur EXCEPT !.proc[i] = Allocproc(@, nextpid),
                                           !.kctx[i] = KThread("forkret"),
                                           !.kctx[p] = [KThread("kfork_parent") EXCEPT !.np = i],
                                           !.nextpid = @ + 1])
                ELSE ProcStore([Cur EXCEPT !.proc[i] = AllocprocUsed(@, nextpid, outcome),
                                           !.plock[i] = h,
                                           !.kctx[p] = [KThread("kfork_fail") EXCEPT
                                                          !.np = i, !.ret = outcome],
                                           !.nextpid = @ + 1])
           ELSE IF i = NPROC
                THEN ProcStore([Cur EXCEPT !.kctx[p] = KThread("user")])
                ELSE ProcStore([Cur EXCEPT !.kctx[p] = [KThread("allocproc") EXCEPT !.i = i + 1]])
  /\ ProcGhostsUnchanged
  /\ UNCHANGED nonProc

\* freeproc(np); release(&np->lock); return on the failure path.  freeproc
\* sets p->state before it walks p->kpagetable, so the state is UNUSED also
\* when the walk faults
KforkFail(h) ==
  /\ At(h, {"kfork_fail"})
  /\ LET p == Me(h)
         i == kctx[p].np
     IN IF FreeprocFaults(proc[i])
        THEN /\ proc' = [proc EXCEPT ![i] = [Freeproc(@) EXCEPT !.kstack = TRUE]]
             /\ panicked' = "kerneltrap"
             /\ UNCHANGED <<kctx, cpus, plock, wait_lock, sl, nextpid>>
        ELSE ProcStore([Cur EXCEPT !.proc[i] = Freeproc(@),
                                   !.plock[i] = 0,
                                   !.kctx[p] = KThread("user")])
  /\ ProcGhostsUnchanged
  /\ UNCHANGED nonProc

\* the lifecycle as a set of (from, to) pairs
Lifecycle ==
  {<<"UNUSED", "USED">>, <<"USED", "RUNNABLE">>, <<"RUNNABLE", "RUNNING">>,
   <<"RUNNING", "RUNNABLE">>, <<"RUNNING", "SLEEPING">>, <<"SLEEPING", "RUNNABLE">>,
   <<"RUNNING", "ZOMBIE">>, <<"ZOMBIE", "UNUSED">>}

\* the step changes the state of slot i from a to b
StateStep(i, a, b) == proc[i].state = a /\ proc'[i].state = b

\* C30 as stated (process lifecycle): every change of a slot's state is one of
\* UNUSED -> USED -> RUNNABLE -> RUNNING -> RUNNABLE or SLEEPING,
\* SLEEPING -> RUNNABLE, RUNNING -> ZOMBIE -> UNUSED, and no other.
C30_Lifecycle ==
  [][\A i \in ProcSlots :
       proc'[i].state # proc[i].state =>
         <<proc[i].state, proc'[i].state>> \in Lifecycle]_vars

\* who makes each transition
LifecycleStep ==
  \A i \in ProcSlots :
    /\ proc'[i].state # proc[i].state =>
         <<proc[i].state, proc'[i].state>> \in Lifecycle \cup {<<"USED", "UNUSED">>}
    /\ StateStep(i, "USED", "UNUSED") => \E h \in Harts : KforkFail(h)
    /\ StateStep(i, "UNUSED", "USED") =>
         \E h \in Harts, o \in {"ok", "allocproc fails", "uvmcopy fails"} :
           KforkAllocUsed(h, o)
    /\ StateStep(i, "USED", "RUNNABLE") => \E h \in Harts : KforkRunnable(h)
    /\ StateStep(i, "RUNNABLE", "RUNNING") => \E h \in Harts : Scheduler(h)
    /\ StateStep(i, "RUNNING", "RUNNABLE") => \E h \in Harts : Me(h) = i /\ Yield(h)
    /\ StateStep(i, "RUNNING", "SLEEPING") => \E h \in Harts : Me(h) = i /\ SleepSched(h)
    /\ StateStep(i, "SLEEPING", "RUNNABLE") =>
         \E h \in Harts : Wakeup(h) \/ \E pid \in 1..MaxPid : Kkill(h, pid)
    /\ StateStep(i, "RUNNING", "ZOMBIE") => \E h \in Harts : Me(h) = i /\ KexitZombie(h)
    /\ StateStep(i, "ZOMBIE", "UNUSED") =>
         \E h \in Harts : Me(h) = proc[i].parent /\ KwaitChild(h)

\* C30 (process lifecycle, amended): every change of a slot's state is one of
\* the lifecycle's transitions, made by the operation the lifecycle names, or
\* USED -> UNUSED, made by freeproc when allocproc or kfork fails.
C30_LifecycleWithFailure == [][LifecycleStep]_vars

\* a slot is USED with its allocation failed and freeproc next, after another
\* process went through the whole lifecycle and was reaped
C30_Witness ==
  \E p \in ProcSlots :
    /\ kctx[p].pc = "kfork_fail" /\ proc[kctx[p].np].state = "USED"
    /\ gReaped > 0 /\ panicked = ""
----------------------------------------------------------------------------
(***************************************************************************)
(* begin_op and end_op with their sleep and wakeup (kernel/log.c).  A step *)
(* is one critical section of log.lock; sleep(&log, &log.lock) gives up    *)
(* the lock and sleeps with no wakeup in between.                          *)
(***************************************************************************)
BopProcs == 1..NBOPPROC

BopIdle == [pc |-> "idle", wrote |-> 0]

\* (mutant: wakeup that wakes nobody)
BopWakeupMutant(P) == P
\* wakeup(&log): every process sleeping in begin_op becomes RUNNABLE
BopWakeup(P) ==
  [q \in BopProcs |-> IF P[q].pc = "asleep" THEN [P[q] EXCEPT !.pc = "woken"] ELSE P[q]]

\* begin_op's loop body for process p, holding log.lock
BeginOpTest(lg, P, p) ==
  IF BeginOpAdmits(lg)
  THEN [lg |-> [lg EXCEPT !.outstanding = @ + 1], P |-> [P EXCEPT ![p].pc = "inop"]]
  ELSE [lg |-> lg, P |-> [P EXCEPT ![p].pc = "asleep"]]

\* begin_op(): acquire(&log.lock) and the first pass of the loop
BopBeginOp(p) ==
  /\ panicked = "" /\ bopc[p].pc = "idle"
  /\ \E r \in {BeginOpTest(bop, bopc, p)} : bop' = r.lg /\ bopc' = r.P
  /\ UNCHANGED panicked
  /\ UNCHANGED nonBop

\* begin_op: back from sleep with log.lock, the next pass of the loop
BopRetest(p) ==
  /\ panicked = "" /\ bopc[p].pc = "woken"
  /\ \E r \in {BeginOpTest(bop, bopc, p)} : bop' = r.lg /\ bopc' = r.P
  /\ UNCHANGED panicked
  /\ UNCHANGED nonBop

\* log_write(b) inside the operation: new, the block is not in the log yet
\* (an operation logs at most MAXOPBLOCKS new blocks)
BopLogWrite(p, new) ==
  /\ panicked = "" /\ bopc[p].pc = "inop"
  /\ new => bopc[p].wrote < MAXOPBLOCKS
  /\ ~new => bop.n > 0
  /\ IF bop.n >= LOGBLOCKS
     THEN panicked' = "too big a transaction" /\ UNCHANGED <<bop, bopc>>
     ELSE IF bop.outstanding < 1
     THEN panicked' = "log_write outside of trans" /\ UNCHANGED <<bop, bopc>>
     ELSE /\ bop' = [bop EXCEPT !.n = IF new THEN @ + 1 ELSE @]
          /\ bopc' = [bopc EXCEPT ![p].wrote = IF new THEN @ + 1 ELSE @]
          /\ UNCHANGED panicked
  /\ UNCHANGED nonBop

\* end_op() up to release(&log.lock)
BopEndOp(p) ==
  /\ panicked = "" /\ bopc[p].pc = "inop"
  /\ IF bop.committing = 1
     THEN panicked' = "log.committing" /\ UNCHANGED <<bop, bopc>>
     ELSE /\ UNCHANGED panicked
          /\ IF bop.outstanding = 1
             THEN /\ bop' = [bop EXCEPT !.outstanding = 0, !.committing = 1]
                  /\ bopc' = [bopc EXCEPT ![p].pc = "commit"]
             ELSE /\ bop' = [bop EXCEPT !.outstanding = @ - 1]
                  /\ bopc' = BopWakeup([bopc EXCEPT ![p] = BopIdle])
  /\ UNCHANGED nonBop

\* end_op: commit(), which empties the log
BopCommit(p) ==
  /\ panicked = "" /\ bopc[p].pc = "commit"
  /\ bop' = [bop EXCEPT !.n = 0]
  /\ bopc' = [bopc EXCEPT ![p].pc = "committed"]
  /\ UNCHANGED panicked
  /\ UNCHANGED nonBop

\* end_op after commit: acquire(&log.lock); committing = 0; wakeup(&log)
BopEndCommit(p) ==
  /\ panicked = "" /\ bopc[p].pc = "committed"
  /\ bop' = [bop EXCEPT !.committing = 0]
  /\ bopc' = BopWakeup([bopc EXCEPT ![p] = BopIdle])
  /\ UNCHANGED panicked
  /\ UNCHANGED nonBop

BopNext ==
  \/ \E p \in BopProcs : BopBeginOp(p)
  \/ \E p \in BopProcs : BopRetest(p)
  \/ \E p \in BopProcs, new \in BOOLEAN : BopLogWrite(p, new)
  \/ \E p \in BopProcs : BopEndOp(p)
  \/ \E p \in BopProcs : BopCommit(p)
  \/ \E p \in BopProcs : BopEndCommit(p)

\* after initlog: nothing outstanding, no commit, an empty log
BopInitVars ==
  /\ bop = [outstanding |-> 0, committing |-> 0, n |-> 0]
  /\ bopc = [p \in BopProcs |-> BopIdle]

BopAsleep(p) == bopc[p].pc = "asleep"
BopBlocked(p) == bopc[p].pc \in {"asleep", "woken"}
BopAdmitted(p) == bopc[p].pc = "inop"

\* no process is left asleep once end_op has returned
EndOpWakes ==
  \A p \in BopProcs :
    (bopc[p].pc \in {"inop", "committed"} /\ bopc'[p].pc = "idle") =>
      \A q \in BopProcs : ~(bopc'[q].pc = "asleep")

\* C22 as stated (begin_op liveness): under fair scheduling, with every
\* admitted operation reaching end_op, every process blocked in begin_op is
\* eventually admitted, and every end_op wakes the begin_op sleepers.
C22_BeginOpEventually ==
  /\ \A p \in BopProcs : BopBlocked(p) ~> (BopAdmitted(p) \/ panicked # "")
  /\ [][EndOpWakes]_vars

\* a process sleeps in begin_op only while begin_op would not admit it
BopNoLostWakeup == \A p \in BopProcs : BopAsleep(p) => ~BeginOpAdmits(bop)

\* C22 (begin_op progress, amended): every end_op wakes the begin_op sleepers
\* (the committing one after commit); a process asleep in begin_op is
\* eventually woken, it never sleeps while begin_op would admit it, and while
\* a process is blocked and the log admits an operation, that process is
\* admitted or the room is taken by another begin_op.
C22_BeginOpProgress ==
  /\ []BopNoLostWakeup
  /\ [][EndOpWakes]_vars
  /\ \A p \in BopProcs : BopAsleep(p) ~> (~BopAsleep(p) \/ panicked # "")
  /\ \A p \in BopProcs :
       (BopBlocked(p) /\ BeginOpAdmits(bop)) ~>
         (BopAdmitted(p) \/ ~BeginOpAdmits(bop) \/ panicked # "")

\* one process sleeps in begin_op for want of log space while two operations
\* are outstanding, one of which has logged a block
C22_Witness ==
  /\ \E p \in BopProcs : BopAsleep(p)
  /\ bop.outstanding = 2 /\ bop.committing = 0 /\ bop.n = 1
  /\ panicked = ""
\* the slots whose parent is p
ChildrenOf(p) == {k \in ProcSlots : proc[k].parent = p}

\* hart h runs a step of kwait: its entry, a step of its scan, its test of
\* killed(p), or its way back from sleep(p, &wait_lock)
KwaitStep(h) ==
  \/ Kwait(h, TRUE) \/ Kwait(h, FALSE)
  \/ KwaitChild(h)
  \/ KwaitKilled(h)
  \/ (At(h, {"sleep_reacquire"}) /\ kctx[Me(h)].slock = "wait_lock" /\ SleepReacquire(h))

\* the step ends kwait with -1: back in user space, wait_lock released,
\* nothing reaped
KwaitReturnsError(h) ==
  /\ KwaitStep(h)
  /\ kctx'[Me(h)].pc = "user" /\ wait_lock' = 0 /\ gReaped' = gReaped

\* the step ends in copyout's failure on a ZOMBIE child
KwaitCopyoutFails(h) ==
  /\ kctx[Me(h)].pc = "kwait"
  /\ proc[kctx[Me(h)].i].state = "ZOMBIE" /\ ~kctx[Me(h)].copyout

\* the step calls sleep(p, &wait_lock), still holding wait_lock
KwaitSleeps(h) ==
  /\ kctx'[Me(h)].pc = "sleep" /\ kctx'[Me(h)].schan = Me(h)
  /\ kctx'[Me(h)].slock = "wait_lock" /\ wait_lock' = h

\* C31 as stated (kwait without a ZOMBIE child): kwait returns -1 if the
\* caller has no children and otherwise sleeps on its own proc address and
\* rescans when woken; it does not return -1 while it has a child.
C31_WaitSleepsWithChildren ==
  [][\A h \in Harts :
       /\ KwaitKilled(h) => KwaitSleeps(h)
       /\ (KwaitReturnsError(h) /\ ~KwaitCopyoutFails(h)) => ChildrenOf(Me(h)) = {}]_vars

\* a scan that found children and no ZOMBIE among them has ended
KwaitScanned ==
  \A p \in ProcSlots : kctx[p].pc = "kwait_killed" => ChildrenOf(p) # {}

KwaitNoZombie ==
  \A h \in Harts :
    \* entry and rescan: -1 with no children, else the scan starts
    /\ (KwaitStep(h) /\ kctx[Me(h)].pc \in {"user", "sleep_reacquire"}) =>
         IF ChildrenOf(Me(h)) = {}
         THEN KwaitReturnsError(h)
         ELSE kctx'[Me(h)].pc = "kwait" /\ wait_lock' = h
    \* after the scan: -1 if killed, else sleep
    /\ KwaitKilled(h) =>
         IF proc[Me(h)].killed = 1 THEN KwaitReturnsError(h) ELSE KwaitSleeps(h)
    \* sleep releases wait_lock
    /\ (SleepRelease(h) /\ kctx[Me(h)].slock = "wait_lock") => wait_lock' = 0
    \* -1 only for these reasons
    /\ KwaitReturnsError(h) =>
         \/ ChildrenOf(Me(h)) = {}
         \/ kctx[Me(h)].pc = "kwait_killed" /\ proc[Me(h)].killed = 1
         \/ KwaitCopyoutFails(h)

\* C31 (kwait without a ZOMBIE child, amended): kwait returns -1 if the
\* caller has no children or has been killed, and otherwise sleeps on its own
\* proc address, releasing wait_lock, and rescans when woken; with a child it
\* returns -1 only when killed or when copyout of a ZOMBIE's status fails.
C31_WaitSleepsUnlessKilled == []KwaitScanned /\ [][KwaitNoZombie]_vars

\* a killed caller has scanned its children, found a live one and no ZOMBIE,
\* and is about to return -1
C31_Witness ==
  \E p \in ProcSlots :
    /\ kctx[p].pc = "kwait_killed" /\ proc[p].killed = 1 /\ panicked = ""
    /\ \E k \in ChildrenOf(p) : proc[k].state \in {"RUNNABLE", "RUNNING", "SLEEPING"}
    /\ \A k \in ChildrenOf(p) : proc[k].state # "ZOMBIE"
----------------------------------------------------------------------------
(***************************************************************************)
(* scheduler, sched, yield, sleep, and the tail of kexit (kernel/proc.c),  *)
(* with usertrap's and kerneltrap's calls of yield (kernel/trap.c).  A     *)
(* step is one acquire or release with the code up to the next one;        *)
(* acquire is taken when the lock is free (a hart that spins has           *)
(* interrupts off and changes nothing).                                    *)
(***************************************************************************)
SchedHarts == 1..NSCHEDHART
SchedProcs == 1..NSCHEDPROC

SchedHartInit == [pc |-> "loop", idx |-> 1, noff |-> 0, intena |-> 0, intr |-> 0, proc |-> 0]
SchedProcInit(state, pc) ==
  [state |-> state, pc |-> pc, ret |-> "", from |-> "", saved |-> 0, exiting |-> FALSE]

SCur == [sh |-> sh, sp |-> sp, splock |-> splock, sclk |-> sclk, panic |-> ""]

PopOffPanics == {"panic: pop_off - interruptible", "panic: pop_off"}

SchedStore(s) ==
  LET bad == {h \in SchedHarts : s.sh[h].pc \in PopOffPanics}
  IN IF s.panic # ""
     THEN panicked' = s.panic /\ UNCHANGED <<sh, sp, splock, sclk>>
     ELSE IF bad # {}
     THEN panicked' = s.sh[CHOOSE h \in bad : TRUE].pc /\ UNCHANGED <<sh, sp, splock, sclk>>
     ELSE /\ sh' = s.sh /\ sp' = s.sp /\ splock' = s.splock /\ sclk' = s.sclk
          /\ UNCHANGED panicked

\* hart h runs process code at pc
SchedAt(h, pc) ==
  /\ panicked = "" /\ sh[h].pc = "run" /\ sh[h].proc # 0
  /\ sp[sh[h].proc].pc = pc

\* (mutant: sched that does not put intena back)
SchedRestoreMutant(c, intena) == c
\* sched after swtch: mycpu()->intena = intena
SchedRestore(c, intena) == [c EXCEPT !.intena = intena]

\* sched's four tests, in order
SchedPanic(s, h, p) ==
  IF s.splock[p] # h THEN "sched p->lock"
  ELSE IF s.sh[h].noff # 1 THEN "sched locks"
  ELSE IF s.sp[p].state = "RUNNING" THEN "sched RUNNING"
  ELSE IF s.sh[h].intr = 1 THEN "sched interruptible"
  ELSE ""

\* (mutant: a scan that starts over at the first slot every time)
SchedAdvanceRestart(c, i) ==
  [c EXCEPT !.pc = IF @ \in PopOffPanics THEN @ ELSE "loop", !.idx = 1]
\* scheduler's inner loop: p++, and back to the outer loop after the last slot
SchedAdvance(c, i) ==
  [c EXCEPT !.pc = IF @ \in PopOffPanics THEN @
                   ELSE IF i = NSCHEDPROC THEN "loop" ELSE "scan",
            !.idx = IF i = NSCHEDPROC THEN 1 ELSE i + 1]

\* scheduler: intr_on(); intr_off() at the top of the outer loop
SchedLoop(h) ==
  /\ panicked = "" /\ sh[h].pc = "loop"
  /\ SchedStore([SCur EXCEPT !.sh[h].intr = 0, !.sh[h].pc = "scan", !.sh[h].idx = 1])
  /\ UNCHANGED nonSched

\* scheduler: acquire(&p->lock) of slot idx; a RUNNABLE slot becomes RUNNING
\* and c->proc, and swtch enters it; any other slot is released
SchedScan(h) ==
  /\ panicked = "" /\ sh[h].pc = "scan"
  /\ splock[sh[h].idx] = 0
  /\ LET i == sh[h].idx
         c == PushOff(sh[h])
     IN IF sp[i].state = "RUNNABLE"
        THEN SchedStore([SCur EXCEPT !.sh[h] = [c EXCEPT !.pc = "run", !.proc = i],
                                     !.splock[i] = h,
                                     !.sp[i].state = "RUNNING"])
        ELSE SchedStore([SCur EXCEPT !.sh[h] = SchedAdvance(PopOff(c), i)])
  /\ UNCHANGED nonSched

\* scheduler after swtch returns: c->proc = 0; release(&p->lock)
SchedBack(h) ==
  /\ panicked = "" /\ sh[h].pc = "back"
  /\ LET i == sh[h].idx
     IN IF splock[i] # h
        THEN SchedStore([SCur EXCEPT !.panic = "release"])
        ELSE SchedStore([SCur EXCEPT !.sh[h] = [SchedAdvance(PopOff(sh[h]), i) EXCEPT !.proc = 0],
                                     !.splock[i] = 0])
  /\ UNCHANGED nonSched

\* forkret: release(&p->lock), and on to user space (sret turns interrupts on)
SchedForkret(h) ==
  /\ SchedAt(h, "forkret")
  /\ LET p == sh[h].proc
     IN IF splock[p] # h
        THEN SchedStore([SCur EXCEPT !.panic = "release"])
        ELSE SchedStore([SCur EXCEPT !.sh[h] = [PopOff(sh[h]) EXCEPT !.intr = 1],
                                     !.splock[p] = 0,
                                     !.sp[p].pc = "user"])
  /\ UNCHANGED nonSched

\* a trap from user space (interrupts go off).  "timer": usertrap calls
\* yield.  "syscall": intr_on() and the system call.  "killed": kexit(-1) at
\* once, with interrupts still off (not for the first process, which must
\* not exit)
SchedUsertrap(h, cause) ==
  /\ SchedAt(h, "user")
  /\ cause = "killed" => sh[h].proc # 1
  /\ LET p == sh[h].proc
     IN SchedStore(
          [SCur EXCEPT !.sh[h].intr = IF cause = "syscall" THEN 1 ELSE 0,
                       !.sp[p].pc = IF cause = "timer" THEN "yield" ELSE "kernel",
                       !.sp[p].ret = IF cause = "timer" THEN "user" ELSE "",
                       !.sp[p].exiting = (cause = "killed")])
  /\ UNCHANGED nonSched

\* a timer interrupt in the kernel: kerneltrap calls yield
SchedKerneltrap(h) ==
  /\ SchedAt(h, "kernel") /\ sh[h].intr = 1 /\ sh[h].noff = 0
  /\ SchedStore([SCur EXCEPT !.sh[h].intr = 0,
                             !.sp[sh[h].proc].pc = "yield",
                             !.sp[sh[h].proc].ret = "kernel"])
  /\ UNCHANGED nonSched

\* the system call returns to user space
SchedReturn(h) ==
  /\ SchedAt(h, "kernel") /\ ~sp[sh[h].proc].exiting
  /\ SchedStore([SCur EXCEPT !.sh[h].intr = 1, !.sp[sh[h].proc].pc = "user"])
  /\ UNCHANGED nonSched

\* (mutant: yield that sets RUNNABLE without p->lock)
SchedYieldNoLock(h) ==
  /\ SchedAt(h, "yield")
  /\ SchedStore([SCur EXCEPT !.sp[sh[h].proc].state = "RUNNABLE",
                             !.sp[sh[h].proc].pc = "sched",
                             !.sp[sh[h].proc].from = "yield"])
  /\ UNCHANGED nonSched
\* yield: acquire(&p->lock); p->state = RUNNABLE; sched() is next
SchedYield(h) ==
  /\ SchedAt(h, "yield") /\ splock[sh[h].proc] = 0
  /\ LET p == sh[h].proc
     IN SchedStore([SCur EXCEPT !.sh[h] = PushOff(@), !.splock[p] = h,
                                !.sp[p].state = "RUNNABLE",
                                !.sp[p].pc = "sched", !.sp[p].from = "yield"])
  /\ UNCHANGED nonSched

\* a caller of sleep (kwait, acquiresleep, begin_op): acquire(lk), and the
\* condition is false
SchedSleepCall(h) ==
  /\ SchedAt(h, "kernel") /\ sclk = 0
  /\ SchedStore([SCur EXCEPT !.sh[h] = PushOff(@), !.sclk = h,
                             !.sp[sh[h].proc].pc = "sleep"])
  /\ UNCHANGED nonSched

\* sleep: acquire(&p->lock)
SchedSleepAcquire(h) ==
  /\ SchedAt(h, "sleep") /\ splock[sh[h].proc] = 0
  /\ SchedStore([SCur EXCEPT !.sh[h] = PushOff(@), !.splock[sh[h].proc] = h,
                             !.sp[sh[h].proc].pc = "sleep_release"])
  /\ UNCHANGED nonSched

\* sleep: release(lk); p->state = SLEEPING; sched() is next
SchedSleepRelease(h) ==
  /\ SchedAt(h, "sleep_release")
  /\ LET p == sh[h].proc
     IN IF sclk # h
        THEN SchedStore([SCur EXCEPT !.panic = "release"])
        ELSE SchedStore([SCur EXCEPT !.sh[h] = PopOff(@), !.sclk = 0,
                                     !.sp[p].state = "SLEEPING",
                                     !.sp[p].pc = "sched", !.sp[p].from = "sleep"])
  /\ UNCHANGED nonSched

\* a process in the kernel takes the lock of the condition and calls wakeup:
\* acquire(&q->lock); SLEEPING becomes RUNNABLE; release(&q->lock)
SchedWakeup(h, q) ==
  /\ SchedAt(h, "kernel") /\ sclk = 0
  /\ q # sh[h].proc /\ splock[q] = 0
  /\ sp[q].state = "SLEEPING"
  /\ SchedStore([SCur EXCEPT !.sh[h] = PopOff(PopOff(PushOff(PushOff(@)))),
                             !.sp[q].state = "RUNNABLE"])
  /\ UNCHANGED nonSched

\* kexit: acquire(&wait_lock) (not the first process)
SchedExitCall(h) ==
  /\ SchedAt(h, "kernel") /\ sclk = 0
  /\ sh[h].proc # 1
  /\ SchedStore([SCur EXCEPT !.sh[h] = PushOff(@), !.sclk = h,
                             !.sp[sh[h].proc].pc = "kexit"])
  /\ UNCHANGED nonSched

\* kexit: acquire(&p->lock); p->state = ZOMBIE; release(&wait_lock); sched()
\* is next
SchedExitZombie(h) ==
  /\ SchedAt(h, "kexit") /\ splock[sh[h].proc] = 0
  /\ LET p == sh[h].proc
     IN IF sclk # h
        THEN SchedStore([SCur EXCEPT !.panic = "release"])
        ELSE SchedStore([SCur EXCEPT !.sh[h] = PopOff(PushOff(@)),
                                     !.splock[p] = h, !.sclk = 0,
                                     !.sp[p].state = "ZOMBIE",
                                     !.sp[p].pc = "sched", !.sp[p].from = "kexit"])
  /\ UNCHANGED nonSched

\* sched: the four tests, intena = mycpu()->intena, swtch to the scheduler
SchedEnter(h) ==
  /\ SchedAt(h, "sched")
  /\ LET p == sh[h].proc
     IN IF SchedPanic(SCur, h, p) # ""
        THEN SchedStore([SCur EXCEPT !.panic = SchedPanic(SCur, h, p)])
        ELSE SchedStore([SCur EXCEPT !.sp[p].saved = sh[h].intena,
                                     !.sp[p].pc = "switched",
                                     !.sh[h].pc = "back"])
  /\ UNCHANGED nonSched

\* swtch returns in sched on the hart that picked the process:
\* mycpu()->intena = intena, and the caller's release(&p->lock); yield
\* returns into usertrap or kerneltrap, which go back with interrupts on
SchedResume(h) ==
  /\ SchedAt(h, "switched")
  /\ LET p == sh[h].proc
         c == PopOff(SchedRestore(sh[h], sp[p].saved))
     IN IF splock[p] # h
        THEN SchedStore([SCur EXCEPT !.panic = "release"])
        ELSE IF sp[p].from = "yield"
        THEN SchedStore([SCur EXCEPT !.sh[h] = [c EXCEPT !.intr = 1],
                                     !.splock[p] = 0,
                                     !.sp[p].pc = sp[p].ret, !.sp[p].from = ""])
        ELSE SchedStore([SCur EXCEPT !.sh[h] = c,
                                     !.splock[p] = 0,
                                     !.sp[p].pc = "sleep_reacquire", !.sp[p].from = ""])
  /\ UNCHANGED nonSched

\* sleep: acquire(lk) on the way out; the caller finds its condition true
\* and releases lk
SchedSleepReacquire(h) ==
  /\ SchedAt(h, "sleep_reacquire") /\ sclk = 0
  /\ SchedStore([SCur EXCEPT !.sh[h] = PopOff(PushOff(@)),
                             !.sp[sh[h].proc].pc = "kernel"])
  /\ UNCHANGED nonSched

\* a process in the kernel reaps a ZOMBIE (kwait: acquire(&pp->lock);
\* freeproc) or forks into an UNUSED slot (allocproc ... state = RUNNABLE)
SchedReapFork(h, q) ==
  /\ SchedAt(h, "kernel") /\ sh[h].noff = 0
  /\ splock[q] = 0 /\ sp[q].state \in {"ZOMBIE", "UNUSED"}
  /\ SchedStore([SCur EXCEPT !.sp[q] = IF sp[q].state = "ZOMBIE"
                                       THEN SchedProcInit("UNUSED", "")
                                       ELSE SchedProcInit("RUNNABLE", "forkret")])
  /\ UNCHANGED nonSched

SchedNext ==
  \/ \E h \in SchedHarts : SchedLoop(h)
  \/ \E h \in SchedHarts : SchedScan(h)
  \/ \E h \in SchedHarts : SchedBack(h)
  \/ \E h \in SchedHarts : SchedForkret(h)
  \/ \E h \in SchedHarts, cause \in {"timer", "syscall", "killed"} : SchedUsertrap(h, cause)
  \/ \E h \in SchedHarts : SchedKerneltrap(h)
  \/ \E h \in SchedHarts : SchedReturn(h)
  \/ \E h \in SchedHarts : SchedYield(h)
  \/ \E h \in SchedHarts : SchedSleepCall(h)
  \/ \E h \in SchedHarts : SchedSleepAcquire(h)
  \/ \E h \in SchedHarts : SchedSleepRelease(h)
  \/ \E h \in SchedHarts, q \in SchedProcs : SchedWakeup(h, q)
  \/ \E h \in SchedHarts : SchedExitCall(h)
  \/ \E h \in SchedHarts : SchedExitZombie(h)
  \/ \E h \in SchedHarts : SchedEnter(h)
  \/ \E h \in SchedHarts : SchedResume(h)
  \/ \E h \in SchedHarts : SchedSleepReacquire(h)
  \/ \E h \in SchedHarts, q \in SchedProcs : SchedReapFork(h, q)

\* after procinit and userinit: the first process is RUNNABLE at forkret
SchedInitVars ==
  /\ sh = [h \in SchedHarts |-> SchedHartInit]
  /\ sp = [p \in SchedProcs |-> IF p = 1 THEN SchedProcInit("RUNNABLE", "forkret")
                                 ELSE SchedProcInit("UNUSED", "")]
  /\ splock = [p \in SchedProcs |-> 0]
  /\ sclk = 0
SchedPanics == {"sched p->lock", "sched locks", "sched RUNNING", "sched interruptible"}

\* none of sched's panics has happened
SchedNoPanic == panicked \notin SchedPanics

\* at every entry of sched the hart holds p->lock and nothing else, with
\* interrupts off, and the process is not RUNNING; sched keeps intena
SchedPreconditions ==
  \A h \in SchedHarts :
    /\ SchedEnter(h) =>
         /\ sp[sh[h].proc].from \in {"yield", "sleep", "kexit"}
         /\ splock[sh[h].proc] = h /\ sclk # h
         /\ \A q \in SchedProcs \ {sh[h].proc} : splock[q] # h
         /\ sh[h].noff = 1 /\ sh[h].intr = 0
         /\ sp[sh[h].proc].state \in {"RUNNABLE", "SLEEPING", "ZOMBIE"}
         /\ panicked' = ""
         /\ sp'[sh[h].proc].saved = sh[h].intena
    /\ SchedResume(h) => sh'[h].intena = sp[sh[h].proc].saved

\* the value sched keeps does not change while the process is switched out
SchedSavedKept ==
  \A p \in SchedProcs :
    (sp[p].pc = "switched" /\ sp'[p].pc = "switched") => sp'[p].saved = sp[p].saved

\* C32 (sched's preconditions): at every entry of sched from yield, sleep or
\* kexit the hart holds exactly the current process's p->lock (noff == 1),
\* interrupts are off and the state is not RUNNING, so no panic of sched is
\* reachable; after swtch sched puts back the intena the hart had at entry.
C32_SchedPreconditions ==
  /\ []SchedNoPanic
  /\ [][SchedPreconditions /\ SchedSavedKept]_vars

\* a process that slept with intena 1 is about to resume on a hart whose
\* intena is 0
C32_Witness ==
  \E h \in SchedHarts :
    /\ SchedAt(h, "switched")
    /\ sp[sh[h].proc].saved = 1 /\ sh[h].intena = 0
    /\ sp[sh[h].proc].state = "RUNNING"
\* the harts whose c->proc is p
SchedCurrentOn(p) == {h \in SchedHarts : sh[h].proc = p}

\* no slot is c->proc of two harts; a RUNNING slot is c->proc of one hart
SchedOneHart ==
  \A p \in SchedProcs :
    /\ Cardinality(SchedCurrentOn(p)) <= 1
    /\ sp[p].state = "RUNNING" => Cardinality(SchedCurrentOn(p)) = 1

\* a scheduler picks a slot only when it is RUNNABLE, nobody's c->proc, and
\* its context is saved (it has switched out, or never ran)
SchedPicksSwitchedOut ==
  \A h \in SchedHarts :
    (SchedScan(h) /\ sh'[h].proc # 0) =>
      /\ sp[sh[h].idx].state = "RUNNABLE"
      /\ SchedCurrentOn(sh[h].idx) = {}
      /\ sp[sh[h].idx].pc \in {"switched", "forkret"}

\* C33 (one hart per process): no process slot is c->proc of two harts, a
\* RUNNING slot is c->proc of exactly one hart, and a process that has set
\* itself RUNNABLE or SLEEPING but has not switched to its scheduler yet is
\* not picked by another hart.
C33_OneHartPerProcess == []SchedOneHart /\ [][SchedPicksSwitchedOut]_vars

\* a process has set itself RUNNABLE in yield and not entered sched yet, and
\* the other hart's scan stands at its slot
C33_Witness ==
  \E h, g \in SchedHarts :
    /\ h # g
    /\ SchedAt(h, "sched") /\ sp[sh[h].proc].state = "RUNNABLE"
    /\ sh[g].pc = "scan" /\ sh[g].idx = sh[h].proc
\* C34 (round-robin progress): with every hart's scheduler loop running and
\* every running process reaching sched, a process that is RUNNABLE
\* eventually is RUNNING.
C34_RunnableRuns ==
  \A p \in SchedProcs :
    (sp[p].state = "RUNNABLE") ~> (sp[p].state = "RUNNING" \/ panicked # "")

\* two processes are RUNNABLE and switched out while both harts run others
\* or scan
C34_Witness ==
  /\ \E p, q \in SchedProcs :
       /\ p # q
       /\ sp[p].state = "RUNNABLE" /\ sp[p].pc = "switched" /\ splock[p] = 0
       /\ sp[q].state = "RUNNABLE" /\ sp[q].pc = "switched" /\ splock[q] = 0
  /\ \E h \in SchedHarts : sh[h].pc = "run"
  /\ panicked = ""
\* the lock the kernel thread on hart h is about to acquire: <<"wait_lock">>,
\* <<"p->lock", slot>>, <<"lk->lk">>, or <<>> for none
WantsLock(h) ==
  IF Me(h) = 0 THEN <<"p->lock", cpus[h].idx>>
  ELSE LET p == Me(h)
           pc == kctx[p].pc
       IN IF pc \in {"allocproc", "kwait", "kkill"} THEN <<"p->lock", kctx[p].i>>
          ELSE IF pc = "wakeup" THEN <<"p->lock", kctx[p].j>>
          ELSE IF pc = "kfork_runnable" THEN <<"p->lock", kctx[p].np>>
          ELSE IF pc \in {"kexit_zombie", "kwait_killed"} THEN <<"p->lock", p>>
          ELSE IF pc = "sleep" /\ SleepOrder[kctx[p].sstep] = "acquire(&p->lock)"
          THEN <<"p->lock", p>>
          ELSE IF pc = "kfork_parent" THEN <<"wait_lock">>
          ELSE IF pc = "sleep_reacquire"
          THEN (IF kctx[p].slock = "wait_lock" THEN <<"wait_lock">> ELSE <<"lk->lk">>)
          ELSE IF pc = "holding" THEN <<"lk->lk">>
          ELSE <<>>

\* the hart that holds lock l (0: free)
LockHolder(l) ==
  IF l = <<>> THEN 0
  ELSE IF l[1] = "wait_lock" THEN wait_lock
  ELSE IF l[1] = "lk->lk" THEN sl.lk
  ELSE plock[l[2]]

\* hart h holds some p->lock
HoldsProcLock(h) == \E i \in ProcSlots : plock[i] = h

\* a hart that is about to acquire wait_lock, and a hart that has just
\* acquired it, holds no p->lock
WaitLockFirst ==
  /\ \A h \in Harts : WantsLock(h) = <<"wait_lock">> => ~HoldsProcLock(h)
  /\ \A h \in Harts : (wait_lock # h /\ wait_lock' = h) => ~HoldsProcLock(h)

\* no two harts wait for a lock the other holds
NoLockCycle ==
  \A h, g \in Harts :
    h # g => ~(LockHolder(WantsLock(h)) = g /\ LockHolder(WantsLock(g)) = h)

\* C35 (lock ordering): no hart acquires wait_lock while it holds a p->lock,
\* and no two harts wait for each other on wait_lock and p->lock.
C35_WaitLockFirst == []NoLockCycle /\ [][WaitLockFirst]_vars

\* exit and wait on different harts: the exiting process holds wait_lock and
\* its wakeup is at the slot of its parent, which holds its own p->lock on
\* its way to sleep in kwait
C35_Witness ==
  \E h, g \in Harts :
    /\ h # g /\ Me(h) # 0 /\ Me(g) # 0
    /\ wait_lock = h /\ kctx[Me(h)].pc = "wakeup" /\ kctx[Me(h)].ret = "kexit"
    /\ kctx[Me(h)].j = Me(g) /\ plock[Me(g)] = g
    /\ kctx[Me(g)].pc = "sleep_sched" /\ kctx[Me(g)].ret = "kwait"
    /\ panicked = ""
----------------------------------------------------------------------------
(***************************************************************************)
(* kalloc.c on byte addresses.  k is [freelist, ref_arr, mem, panic, ret]. *)
(***************************************************************************)
PA2IDX(pa) == pa \div PGSIZE
PGROUNDUP(sz) == ((sz + PGSIZE - 1) \div PGSIZE) * PGSIZE
KheapPages == 0..(PHYSTOP \div PGSIZE)

\* (mutant: kfree that links the frame behind the free list)
KfreePaAtTail(k, pa) ==
  IF k.panic # "" THEN k
  ELSE IF pa % PGSIZE # 0 \/ pa < KernelEnd \/ pa >= PHYSTOP
  THEN [k EXCEPT !.panic = "kfree"]
  ELSE IF k.ref_arr[PA2IDX(pa)] - 1 <= 0
  THEN [k EXCEPT !.ref_arr[PA2IDX(pa)] = @ - 1, !.mem[PA2IDX(pa)] = 1,
                 !.freelist = @ \o <<pa>>]
  ELSE [k EXCEPT !.ref_arr[PA2IDX(pa)] = @ - 1]
\* kfree(pa)
KfreePa(k, pa) ==
  IF k.panic # "" THEN k
  ELSE IF pa % PGSIZE # 0 \/ pa < KernelEnd \/ pa >= PHYSTOP
  THEN [k EXCEPT !.panic = "kfree"]
  ELSE IF k.ref_arr[PA2IDX(pa)] - 1 <= 0
  THEN [k EXCEPT !.ref_arr[PA2IDX(pa)] = @ - 1, !.mem[PA2IDX(pa)] = 1,
                 !.freelist = <<pa>> \o @]
  ELSE [k EXCEPT !.ref_arr[PA2IDX(pa)] = @ - 1]

\* kalloc()
KallocPa(k) ==
  IF k.panic # "" THEN k
  ELSE IF k.freelist = <<>> THEN [k EXCEPT !.ret = 0]
  ELSE [k EXCEPT !.freelist = Tail(@), !.mem[PA2IDX(Head(k.freelist))] = 5,
                 !.ref_arr[PA2IDX(Head(k.freelist))] = 1, !.ret = Head(k.freelist)]

\* freerange(pa_start, pa_end) from p on
RECURSIVE FreerangeFrom(_, _, _)
FreerangeFrom(k, p, pa_end) ==
  IF p + PGSIZE <= pa_end THEN FreerangeFrom(KfreePa(k, p), p + PGSIZE, pa_end)
  ELSE k

\* kinit() on zeroed memory
Kinit ==
  FreerangeFrom([freelist |-> <<>>, ref_arr |-> [i \in KheapPages |-> 0],
                 mem |-> [i \in KheapPages |-> 0], panic |-> "", ret |-> 0],
                PGROUNDUP(KernelEnd), PHYSTOP)

KheapCur == [freelist |-> kheap.freelist, ref_arr |-> kheap.ref_arr,
             mem |-> kheap.mem, panic |-> "", ret |-> 0]
KheapStore(k, op, pa) ==
  /\ klast' = [op |-> op, pa |-> pa, ret |-> IF k.panic # "" THEN 0 ELSE k.ret]
  /\ IF k.panic # ""
     THEN /\ panicked' = k.panic
          /\ UNCHANGED kheap
     ELSE /\ kheap' = [freelist |-> k.freelist, ref_arr |-> k.ref_arr, mem |-> k.mem]
          /\ UNCHANGED panicked
  /\ UNCHANGED nonKalloc

\* the frames kalloc has handed out and nobody has freed
KheapAllocated ==
  {pa \in KernelEnd..(PHYSTOP - 1) :
     /\ pa % PGSIZE = 0 /\ pa + PGSIZE <= PHYSTOP
     /\ \A i \in 1..Len(kheap.freelist) : kheap.freelist[i] # pa}
\* the addresses kfree rejects
KheapBadPas ==
  {pa \in 0..(PHYSTOP + PGSIZE) : pa % PGSIZE # 0 \/ pa < KernelEnd \/ pa >= PHYSTOP}

\* a call of kalloc()
KheapKalloc ==
  /\ panicked = ""
  /\ KheapStore(KallocPa(KheapCur), "kalloc", 0)

\* a call of kfree(pa) by the owner of the frame pa, or with an address that
\* is no frame
KheapKfree(pa) ==
  /\ panicked = ""
  /\ pa \in KheapAllocated \cup KheapBadPas
  /\ KheapStore(KfreePa(KheapCur, pa), "kfree", pa)

KheapNext ==
  \/ KheapKalloc
  \/ \E pa \in 0..(PHYSTOP + PGSIZE) : KheapKfree(pa)

KallocInitVars ==
  /\ kheap = [freelist |-> Kinit.freelist, ref_arr |-> Kinit.ref_arr, mem |-> Kinit.mem]
  /\ klast = [op |-> "kinit", pa |-> 0, ret |-> 0]

\* every allocated frame has reference count 1: nothing calls kparef_inc
KheapRefOne == \A pa \in KheapAllocated : kheap.ref_arr[PA2IDX(pa)] = 1

\* what a call kfree(pa) does
KfreeContract(pa) ==
  IF pa % PGSIZE # 0 \/ pa < KernelEnd \/ pa >= PHYSTOP
  THEN panicked' = "kfree" /\ kheap' = kheap
  ELSE /\ panicked' = ""
       /\ kheap'.mem[PA2IDX(pa)] = 1
       /\ kheap'.freelist = <<pa>> \o kheap.freelist
       /\ \A i \in KheapPages : i # PA2IDX(pa) => kheap'.mem[i] = kheap.mem[i]
       /\ KallocPa([freelist |-> kheap'.freelist, ref_arr |-> kheap'.ref_arr,
                    mem |-> kheap'.mem, panic |-> "", ret |-> 0]).ret = pa

VmfaultNow(p, va) == Vmfault(VmCur, p, vproc[p].pagetable, va)
\* the entry the user page table of p holds for va after vmfault(va0)
VmfaultPte(p, va0, va) ==
  IF Walk(VmfaultNow(p, va0), vproc[p].pagetable, va, FALSE).ret = 0 THEN ZeroPte
  ELSE PteAt(Walk(VmfaultNow(p, va0), vproc[p].pagetable, va, FALSE), va)
\* the calls that may not succeed, and the calls that must
VmfaultRefuses(p, va) ==
  /\ va >= vproc[p].sz \/ Ismapped(VmCur, vproc[p].pagetable, va)
       => VmfaultNow(p, va).ret = 0
  /\ va < vproc[p].sz /\ ~Ismapped(VmCur, vproc[p].pagetable, va) /\ Len(kmem) >= 3
       => VmfaultNow(p, va).ret # 0
\* a successful call: the head of the free list, zeroed, is mapped at va with
\* R+W+U, and no other address changes its entry
VmfaultMaps(p, va) ==
  VmfaultNow(p, va).ret # 0 =>
    /\ VmfaultNow(p, va).ret = Head(kmem)
    /\ VmfaultNow(p, va).pt[Head(kmem)] = ZeroPage
    /\ VmfaultPte(p, va, va) = [v |-> TRUE, pa |-> Head(kmem), perm |-> {"R", "W", "U"}]
    /\ \A a \in 0..(TRAPFRAME - 1) : a # va => VmfaultPte(p, va, a) = VmPte(vproc[p].pagetable, a)
\* a failed call leaves the page tables and the free list as they were
VmfaultFailsClean(p, va) ==
  VmfaultNow(p, va).ret = 0 =>
    /\ VmfaultNow(p, va).pt = pages
    /\ VmfaultNow(p, va).free = kmem
\* a failed call changes no address's entry and keeps no data frame; the
\* frames it has taken are page-table pages walk added to p->pagetable
VmfaultFailsMapped(p, va) ==
  VmfaultNow(p, va).ret = 0 =>
    /\ \A a \in 0..(TRAPFRAME - 1) : VmfaultPte(p, va, a) = VmPte(vproc[p].pagetable, a)
    /\ \/ VmfaultNow(p, va).free = kmem /\ VmfaultNow(p, va).pt = pages
       \/ /\ va < vproc[p].sz /\ ~Ismapped(VmCur, vproc[p].pagetable, va)
          /\ Len(kmem) < 3 /\ kmem # <<>>
          /\ VmfaultNow(p, va).free = <<Head(kmem)>> \o Tail(Tail(kmem))
          /\ VmfaultNow(p, va).pt[vproc[p].pagetable][PX(2, va)] =
               [v |-> TRUE, pa |-> kmem[2], perm |-> {}]
          /\ VmfaultNow(p, va).pt[kmem[2]] = ZeroPage

VmfaultCallers == {p \in VmProcs : vproc[p].used /\ vproc[p].pagetable # 0}

\* C37 as stated: a vmfault that returns 0 leaves the page table and the
\* allocated frames unchanged.
C37_VmfaultContract ==
  panicked = "" =>
    \A p \in VmfaultCallers, va \in 0..MaxVa :
      VmfaultRefuses(p, va) /\ VmfaultMaps(p, va) /\ VmfaultFailsClean(p, va)

\* C37 (vmfault): vmfault returns 0 when va is at or above the size or its
\* page is mapped, and then changes nothing; it returns 0 when kalloc or
\* mappages fails, and then leaves every address's entry as it was and keeps
\* no frame but the page-table page walk had added before it ran out of
\* memory; otherwise it maps the head of the free list, zeroed, at va's page
\* with R+W+U, changes no other address's entry and returns the frame.
C37_VmfaultKeepsWalkPages ==
  panicked = "" =>
    \A p \in VmfaultCallers, va \in 0..MaxVa :
      VmfaultRefuses(p, va) /\ VmfaultMaps(p, va) /\ VmfaultFailsMapped(p, va)

\* copyout has called vmfault with two frames left: the first went back to
\* the free list, the second stays in p->pagetable as an empty table
C37_Witness ==
  /\ vmlast.op = "copyout" /\ vmlast.ret = -1 /\ panicked = ""
  /\ vmlast.arg < vproc[vmlast.p].sz
  /\ Len(kmem) = 1
  /\ pages[vproc[vmlast.p].pagetable][PX(2, vmlast.arg)].v
  /\ pages[pages[vproc[vmlast.p].pagetable][PX(2, vmlast.arg)].pa] = ZeroPage

\* the frames other kernel code (pipes) holds from the start: none, or all
\* but two
VmHeldChoices == {0, Len(VmBoot.free) - 2}
VmfaultInitVars ==
  \E held \in VmHeldChoices :
    /\ kmem = SubSeq(VmBoot.free, held + 1, Len(VmBoot.free))
    /\ page_ref = [f \in Frames |->
                     IF \E k \in 1..held : VmBoot.free[k] = f THEN 1 ELSE VmBoot.ref[f]]
    /\ pages = VmBoot.pt
    /\ vproc = VmBoot.procs
    /\ vmlast = [op |-> "userinit", p |-> 1, arg |-> 0, n |-> 0, ret |-> 1]

\* one process under sbrk, growproc, kexec, page faults and copyout (kfork's
\* failure path walks a null p->kpagetable, after which kfree has freed an
\* arbitrary frame)
VmfaultNext ==
  \/ \E p \in VmProcs, n \in (-MaxGrow)..MaxGrow : VmGrowproc(p, n)
  \/ \E p \in VmProcs, n \in 1..MaxGrow : VmSbrkLazy(p, n)
  \/ \E p \in VmProcs, seg \in {1, MaxSeg}, fail \in ExecFailures : VmKexec(p, seg, fail)
  \/ \E p \in VmProcs, va \in VmAddrs, cow \in {0, -1} : VmUsertrapFault(p, va, cow)
  \/ \E p \in VmProcs, va \in VmAddrs : VmCopyout(p, va)
\* the references the processes 1..n hold to slot s
RECURSIVE InoRefSum(_, _)
InoRefSum(s, n) == IF n = 0 THEN 0 ELSE iproc[n].refs[s] + InoRefSum(s, n - 1)
\* a process that holds an inode's sleep lock holds a reference to it, and
\* ref counts the references the processes hold
InoRefAccount ==
  /\ \A s \in InoSlots : itable[s].lk # 0 => iproc[itable[s].lk].refs[s] > 0
  /\ \A s \in InoSlots :
       itable[s].ref = InoRefSum(s, NINOPROC)
\* iput's acquiresleep finds the lock free: whenever a process may call
\* iput(ip) and iput would free ip, nobody holds ip->lock
IputNeverBlocks ==
  \A p \in InoProcs, s \in InoSlots :
    (iproc[p].pc = "idle" /\ iproc[p].refs[s] > 0 /\ itable[s].lk # p
       /\ IputFrees(itable[s])) => itable[s].lk = 0
\* what the steps of iput do to ref
IputDecrements ==
  \A p \in InoProcs :
    /\ \A s \in InoSlots :
         InoIput(p, s) =>
           IF IputFrees(itable[s])
           THEN itable'[s].ref = itable[s].ref /\ itable'[s].lk = p
                  /\ iproc'[p].pc = "iput_free"
           ELSE itable'[s].ref = itable[s].ref - 1 /\ iproc'[p].pc = "idle"
                  /\ itable'[s].lk = itable[s].lk
    /\ InoIputFree(p) =>
         itable'[iproc[p].slot].ref = itable[iproc[p].slot].ref
           /\ iproc'[p].pc = "iput_dec"
    /\ InoIputDec(p) =>
         itable'[iproc[p].slot].ref = itable[iproc[p].slot].ref - 1
           /\ iproc'[p].pc = "idle"
           /\ \A s \in InoSlots : s # iproc[p].slot => itable'[s].ref = itable[s].ref

\* C38 (iput): when iput takes the free path (ref == 1, valid, nlink == 0)
\* nobody holds the inode's sleep lock, so its acquiresleep does not block;
\* and every iput, on either path, decreases ref by exactly one.
C38_IputNeverBlocks ==
  /\ []InoRefAccount
  /\ []IputNeverBlocks
  /\ [][IputDecrements]_vars

\* a process is on the free path of iput with the sleep lock taken, while the
\* other process holds the lock of another inode
C38_Witness ==
  \E p, q \in InoProcs :
    /\ p # q /\ panicked = ""
    /\ iproc[p].pc = "iput_free" /\ itable[iproc[p].slot].lk = p
    /\ itable[iproc[p].slot].ref = 1
    /\ InoLockedBy(q) # {}
----------------------------------------------------------------------------
(***************************************************************************)
(* SpecNamex: NINOPROC processes, each with the root directory as its cwd, *)
(* resolve paths with namex (kernel/fs.c) on the inode table of SpecInode. *)
(* The disk holds the root directory (inode 1) with the entries ".", "..", *)
(* "a" and "f", the directory a (inode 2) with ".", ".." and "g", and the  *)
(* file f (inode 3), to which g is a second link.  A path is the sequence  *)
(* of its characters.  A process record has, besides pc, slot and refs:    *)
(* path, name and nameiparent, namex's ip and next, its return value ret   *)
(* (a slot, or 0), and base, the references the process held at the call.  *)
(***************************************************************************)
ROOTINO == 1
DIRSIZ == 14
InoTypes == [T_DIR |-> 1, T_FILE |-> 2]

NamexDinode ==
  [i \in Inums |-> IF i \in {1, 2} THEN [type |-> InoTypes.T_DIR, nlink |-> 1]
                   ELSE IF i = 3 THEN [type |-> InoTypes.T_FILE, nlink |-> 2]
                   ELSE [type |-> 0, nlink |-> 0]]
\* the i-number the directory inum holds for name, 0 when it has no such
\* entry
DirEntry(inum, name) ==
  IF inum = 1
  THEN (IF name \in {<<".">>, <<".", ".">>} THEN 1
        ELSE IF name = <<"a">> THEN 2
        ELSE IF name = <<"f">> THEN 3 ELSE 0)
  ELSE IF inum = 2
  THEN (IF name = <<".">> THEN 2
        ELSE IF name = <<".", ".">> THEN 1
        ELSE IF name = <<"g">> THEN 3 ELSE 0)
  ELSE 0

\* the paths the processes resolve
NamexPaths ==
  {<<>>, <<"/">>, <<"f">>, <<"a", "/", "g">>, <<"f", "/", "g">>, <<"a", "/", "x">>,
   <<"/", "a", "/", "/">>, <<".", ".", "/", "f">>}

\* skipelem: path without its leading slashes
RECURSIVE SkipSlashes(_)
SkipSlashes(path) ==
  IF path # <<>> /\ Head(path) = "/" THEN SkipSlashes(Tail(path)) ELSE path
\* skipelem: the characters of path up to the first slash
RECURSIVE PathElement(_)
PathElement(path) ==
  IF path = <<>> \/ Head(path) = "/" THEN <<>>
  ELSE <<Head(path)>> \o PathElement(Tail(path))
\* skipelem(path, name): found is whether there was an element, name its
\* first DIRSIZ characters, path what follows it without leading slashes
Skipelem(path) ==
  LET s == SkipSlashes(path)
      el == PathElement(s)
  IN IF s = <<>> THEN [found |-> FALSE, name |-> <<>>, path |-> <<>>]
     ELSE [found |-> TRUE,
           name |-> IF Len(el) >= DIRSIZ THEN SubSeq(el, 1, DIRSIZ) ELSE el,
           path |-> SkipSlashes(SubSeq(s, Len(el) + 1, Len(s)))]

\* iput(ip) in one piece: the inode table and the disk inodes after it
Iput(T, D, s) ==
  IF IputFrees(T[s])
  THEN [itable |-> [T EXCEPT ![s].type = 0, ![s].valid = FALSE, ![s].ref = @ - 1],
        dinode |-> [D EXCEPT ![T[s].inum] = [type |-> 0, nlink |-> T[s].nlink]]]
  ELSE [itable |-> [T EXCEPT ![s].ref = @ - 1], dinode |-> D]

NamexIdle ==
  [pc |-> "idle", slot |-> 0, refs |-> [s \in InoSlots |-> IF s = 1 THEN 1 ELSE 0],
   path |-> <<>>, name |-> <<>>, nameiparent |-> 0, ip |-> 0, next |-> 0, ret |-> 0,
   base |-> [s \in InoSlots |-> IF s = 1 THEN 1 ELSE 0]]

\* namex(path, nameiparent, name) up to the loop: ip = iget(ROOTDEV, ROOTINO)
\* or idup(myproc()->cwd)
NamexStart(p, path, nameiparent) ==
  /\ panicked = ""
  /\ iproc[p].pc = "idle"
  /\ LET g == IF path # <<>> /\ Head(path) = "/" THEN Iget(itable, ROOTDEV, ROOTINO)
              ELSE [slot |-> 1, itable |-> [itable EXCEPT ![1].ref = @ + 1]]
     IN IF g.slot = 0 THEN InoHalt("iget: no inodes")
        ELSE /\ itable' = g.itable
             /\ iproc' = [iproc EXCEPT ![p].pc = "namex_loop", ![p].path = path,
                                       ![p].nameiparent = nameiparent,
                                       ![p].ip = g.slot, ![p].next = 0, ![p].ret = 0,
                                       ![p].base = iproc[p].refs,
                                       ![p].refs[g.slot] = @ + 1]
             /\ UNCHANGED <<panicked, dinode>>
  /\ UNCHANGED nonIno

\* the loop has an element to look up: ilock(ip)
NamexIlock(p) ==
  /\ panicked = ""
  /\ iproc[p].pc = "namex_loop"
  /\ Skipelem(iproc[p].path).found
  /\ LET s == iproc[p].ip
     IN /\ itable[s].lk = 0
        /\ IF itable[s].valid
           THEN /\ itable' = [itable EXCEPT ![s].lk = p]
                /\ UNCHANGED panicked
           ELSE IF dinode[itable[s].inum].type = 0
           THEN /\ panicked' = "ilock: no type"
                /\ UNCHANGED itable
           ELSE /\ itable' = [itable EXCEPT ![s].lk = p, ![s].valid = TRUE,
                                            ![s].type = dinode[itable[s].inum].type,
                                            ![s].nlink = dinode[itable[s].inum].nlink]
                /\ UNCHANGED panicked
  /\ iproc' = IF panicked' # "" THEN iproc
              ELSE [iproc EXCEPT ![p].pc = "namex_locked",
                                 ![p].name = Skipelem(iproc[p].path).name,
                                 ![p].path = Skipelem(iproc[p].path).path]
  /\ UNCHANGED dinode
  /\ UNCHANGED nonIno

\* (mutant: a lookup that fails leaves the directory to iunlock)
NamexLookupKeepsRef(p) ==
  /\ panicked = ""
  /\ iproc[p].pc = "namex_locked"
  /\ LET s == iproc[p].ip
         inum == DirEntry(itable[s].inum, iproc[p].name)
     IN IF itable[s].type # InoTypes.T_DIR
        THEN /\ iproc' = [iproc EXCEPT ![p].pc = "namex_unlock", ![p].next = 0]
             /\ UNCHANGED <<itable, panicked>>
        ELSE IF iproc[p].nameiparent # 0 /\ iproc[p].path = <<>>
        THEN /\ itable' = [itable EXCEPT ![s].lk = 0]
             /\ iproc' = [iproc EXCEPT ![p].pc = "namex_ret", ![p].ret = s]
             /\ UNCHANGED panicked
        ELSE IF inum = 0
        THEN /\ itable' = [itable EXCEPT ![s].lk = 0]
             /\ iproc' = [iproc EXCEPT ![p].pc = "namex_ret", ![p].ret = 0]
             /\ UNCHANGED panicked
        ELSE LET g == Iget(itable, itable[s].dev, inum)
             IN IF g.slot = 0
                THEN /\ panicked' = "iget: no inodes"
                     /\ UNCHANGED <<itable, iproc>>
                ELSE /\ itable' = g.itable
                     /\ iproc' = [iproc EXCEPT ![p].pc = "namex_unlock",
                                               ![p].next = g.slot,
                                               ![p].refs[g.slot] = @ + 1]
                     /\ UNCHANGED panicked
  /\ UNCHANGED dinode
  /\ UNCHANGED nonIno
\* the body of the loop under ip's lock: the type test, the early stop for
\* nameiparent (iunlock and return ip), dirlookup
NamexLookup(p) ==
  /\ panicked = ""
  /\ iproc[p].pc = "namex_locked"
  /\ LET s == iproc[p].ip
         inum == DirEntry(itable[s].inum, iproc[p].name)
     IN IF itable[s].type # InoTypes.T_DIR
        THEN /\ iproc' = [iproc EXCEPT ![p].pc = "namex_unlock", ![p].next = 0]
             /\ UNCHANGED <<itable, panicked>>
        ELSE IF iproc[p].nameiparent # 0 /\ iproc[p].path = <<>>
        THEN /\ itable' = [itable EXCEPT ![s].lk = 0]
             /\ iproc' = [iproc EXCEPT ![p].pc = "namex_ret", ![p].ret = s]
             /\ UNCHANGED panicked
        ELSE IF inum = 0
        THEN /\ iproc' = [iproc EXCEPT ![p].pc = "namex_unlock", ![p].next = 0]
             /\ UNCHANGED <<itable, panicked>>
        ELSE LET g == Iget(itable, itable[s].dev, inum)
             IN IF g.slot = 0
                THEN /\ panicked' = "iget: no inodes"
                     /\ UNCHANGED <<itable, iproc>>
                ELSE /\ itable' = g.itable
                     /\ iproc' = [iproc EXCEPT ![p].pc = "namex_unlock",
                                               ![p].next = g.slot,
                                               ![p].refs[g.slot] = @ + 1]
                     /\ UNCHANGED panicked
  /\ UNCHANGED dinode
  /\ UNCHANGED nonIno

\* iunlockput(ip), then return 0 or go on with ip = next
NamexIunlockput(p) ==
  /\ panicked = ""
  /\ iproc[p].pc = "namex_unlock"
  /\ LET s == iproc[p].ip
         r == Iput([itable EXCEPT ![s].lk = 0], dinode, s)
     IN /\ itable' = r.itable
        /\ dinode' = r.dinode
        /\ iproc' = [iproc EXCEPT ![p].refs[s] = @ - 1,
                                  ![p].pc = IF iproc[p].next = 0 THEN "namex_ret"
                                            ELSE "namex_loop",
                                  ![p].ip = iproc[p].next,
                                  ![p].ret = 0]
  /\ UNCHANGED panicked
  /\ UNCHANGED nonIno

\* the loop is over: iput(ip) and return 0 for nameiparent, return ip
\* otherwise
NamexEnd(p) ==
  /\ panicked = ""
  /\ iproc[p].pc = "namex_loop"
  /\ ~Skipelem(iproc[p].path).found
  /\ LET s == iproc[p].ip
         r == Iput(itable, dinode, s)
     IN IF iproc[p].nameiparent # 0
        THEN /\ itable' = r.itable
             /\ dinode' = r.dinode
             /\ iproc' = [iproc EXCEPT ![p].refs[s] = @ - 1, ![p].pc = "namex_ret",
                                       ![p].ret = 0]
        ELSE /\ iproc' = [iproc EXCEPT ![p].pc = "namex_ret", ![p].ret = s]
             /\ UNCHANGED <<itable, dinode>>
  /\ UNCHANGED panicked
  /\ UNCHANGED nonIno

\* the caller has the result and, if it is an inode, puts it
NamexCaller(p) ==
  /\ panicked = ""
  /\ iproc[p].pc = "namex_ret"
  /\ LET s == iproc[p].ret
         r == Iput(itable, dinode, s)
     IN IF s = 0
        THEN /\ iproc' = [iproc EXCEPT ![p].pc = "idle", ![p].ip = 0, ![p].name = <<>>,
                                       ![p].path = <<>>, ![p].nameiparent = 0]
             /\ UNCHANGED <<itable, dinode>>
        ELSE /\ itable' = r.itable
             /\ dinode' = r.dinode
             /\ iproc' = [iproc EXCEPT ![p].pc = "idle", ![p].ip = 0, ![p].name = <<>>,
                                       ![p].path = <<>>, ![p].nameiparent = 0,
                                       ![p].ret = 0, ![p].refs[s] = @ - 1]
  /\ UNCHANGED panicked
  /\ UNCHANGED nonIno

NamexNext ==
  \/ \E p \in InoProcs, path \in NamexPaths, nameiparent \in {0, 1} :
       NamexStart(p, path, nameiparent)
  \/ \E p \in InoProcs : NamexIlock(p)
  \/ \E p \in InoProcs : NamexLookup(p)
  \/ \E p \in InoProcs : NamexIunlockput(p)
  \/ \E p \in InoProcs : NamexEnd(p)
  \/ \E p \in InoProcs : NamexCaller(p)

\* after boot: the root directory is in slot 1, referred to by every
\* process as its cwd
NamexInitVars ==
  /\ itable = [s \in InoSlots |->
                 IF s = 1 THEN [dev |-> ROOTDEV, inum |-> ROOTINO, ref |-> NINOPROC,
                                valid |-> FALSE, type |-> 0, nlink |-> 0, lk |-> 0]
                 ELSE ItableInit[s]]
  /\ iproc = [p \in InoProcs |-> NamexIdle]
  /\ dinode = NamexDinode

\* namex has returned to p
NamexReturned(p) == iproc[p].pc = "namex_ret"
\* the references p holds are those it held at the call, and one more to
\* slot s (none more when s = 0)
NamexRefsAre(p, s) ==
  \A u \in InoSlots :
    iproc[p].refs[u] = iproc[p].base[u] + (IF u = s THEN 1 ELSE 0)

\* C39 (namex): when namex returns 0 the caller holds the references it held
\* before the call, when it returns an inode it holds one more, to that
\* inode; in both cases it holds no inode's sleep lock; and the ref of every
\* table entry is the number of references the processes hold.
C39_NamexLeaksNothing ==
  /\ \A s \in InoSlots : itable[s].ref = InoRefSum(s, NINOPROC)
  /\ \A p \in InoProcs :
       NamexReturned(p) => NamexRefsAre(p, iproc[p].ret) /\ InoLockedBy(p) = {}

\* namex has returned 0 to one process because f is not a directory, while
\* the other is inside the loop with a directory locked
C39_Witness ==
  \E p, q \in InoProcs :
    /\ p # q /\ panicked = ""
    /\ NamexReturned(p) /\ iproc[p].ret = 0 /\ iproc[p].name = <<"g">>
    /\ iproc[p].nameiparent = 0
    /\ iproc[q].pc = "namex_locked" /\ itable[iproc[q].ip].lk = q
----------------------------------------------------------------------------
(***************************************************************************)
(* The virtio disk driver (kernel/virtio_disk.c).  A step is one critical  *)
(* section of disk.vdisk_lock; sleep(chan, &disk.vdisk_lock) gives up the  *)
(* lock and sleeps with no wakeup in between.  Buffer p is the buffer      *)
(* process p holds locked, so a buffer has at most one request.            *)
(***************************************************************************)
VProcs == 1..NVPROC
VDescs == 0..(NUM - 1)

VIdle == [pc |-> "idle", idx |-> <<>>, consumed |-> FALSE]
VDescZero == [flag_next |-> FALSE, next |-> 0]

\* virtio_disk_init: all NUM descriptors start out unused
VirtioDiskInit ==
  [free |-> [i \in VDescs |-> TRUE],
   desc |-> [i \in VDescs |-> VDescZero],
   info |-> [i \in VDescs |-> [b |-> 0, status |-> 0]],
   avail |-> <<>>,
   used |-> <<>>]

\* the driver inside a critical section: the disk, a panic message, and
\* whether wakeup(&disk.free[0]) was called
VCrit(d) == [d |-> d, panic |-> "", wake |-> FALSE]

\* alloc_desc(): the first free descriptor (VTake marks it non-free); -1 if
\* none
AllocDesc(free) ==
  IF \E i \in VDescs : free[i]
  THEN CHOOSE i \in VDescs : free[i] /\ \A j \in VDescs : free[j] => i <= j
  ELSE -1

\* alloc_desc: disk.free[i] = 0
VTake(k, i) == [k EXCEPT !.d.free[i] = FALSE]

\* (mutant: free_desc without wakeup(&disk.free[0]))
FreeDescNoWakeup(k, i) ==
  IF k.panic # "" THEN k
  ELSE IF i >= NUM THEN [k EXCEPT !.panic = "free_desc 1"]
  ELSE IF k.d.free[i] THEN [k EXCEPT !.panic = "free_desc 2"]
  ELSE [k EXCEPT !.d.desc[i] = VDescZero, !.d.free[i] = TRUE]
\* free_desc(i)
FreeDesc(k, i) ==
  IF k.panic # "" THEN k
  ELSE IF i >= NUM THEN [k EXCEPT !.panic = "free_desc 1"]
  ELSE IF k.d.free[i] THEN [k EXCEPT !.panic = "free_desc 2"]
  ELSE [k EXCEPT !.d.desc[i] = VDescZero, !.d.free[i] = TRUE, !.wake = TRUE]

\* free_chain(i): flags and next are read before free_desc clears them
RECURSIVE FreeChain(_, _)
FreeChain(k, i) ==
  LET flag == k.d.desc[i].flag_next
      nxt == k.d.desc[i].next
      k2 == FreeDesc(k, i)
  IN IF flag /\ k2.panic = "" THEN FreeChain(k2, nxt) ELSE k2

\* alloc3_desc(idx): three descriptors or none
Alloc3Desc(k) ==
  LET a == AllocDesc(k.d.free) IN
  IF a < 0 THEN [ok |-> FALSE, idx |-> <<>>, k |-> k]
  ELSE LET k1 == VTake(k, a)
           b == AllocDesc(k1.d.free) IN
       IF b < 0 THEN [ok |-> FALSE, idx |-> <<>>, k |-> FreeDesc(k1, a)]
       ELSE LET k2 == VTake(k1, b)
                c == AllocDesc(k2.d.free) IN
            IF c < 0
            THEN [ok |-> FALSE, idx |-> <<>>, k |-> FreeDesc(FreeDesc(k2, a), b)]
            ELSE [ok |-> TRUE, idx |-> <<a, b, c>>, k |-> VTake(k2, c)]

\* wakeup(&disk.free[0])
VWakeDesc(P) ==
  [q \in VProcs |-> IF P[q].pc = "desc_sleep" THEN [P[q] EXCEPT !.pc = "desc_woken"] ELSE P[q]]
\* wakeup(b)
VWakeBuf(P, b) ==
  [q \in VProcs |-> IF q = b /\ P[q].pc = "disk_sleep" THEN [P[q] EXCEPT !.pc = "disk_woken"] ELSE P[q]]

\* virtio_disk_rw from alloc3_desc to the first sleep: on success the chain
\* is formatted and posted and the caller sleeps on b; otherwise it sleeps
\* on &disk.free[0]
VirtioSubmit(p) ==
  \E r \in {Alloc3Desc(VCrit(vdisk))} :
  \E P \in {IF r.k.wake THEN VWakeDesc(vcaller) ELSE vcaller} :
     IF r.k.panic # ""
     THEN panicked' = r.k.panic /\ UNCHANGED <<vdisk, vbuf, vcaller>>
     ELSE /\ UNCHANGED panicked
          /\ IF r.ok
             THEN /\ vdisk' = [r.k.d EXCEPT
                       !.desc[r.idx[1]] = [flag_next |-> TRUE, next |-> r.idx[2]],
                       !.desc[r.idx[2]] = [flag_next |-> TRUE, next |-> r.idx[3]],
                       !.desc[r.idx[3]] = [flag_next |-> FALSE, next |-> 0],
                       !.info[r.idx[1]] = [b |-> p, status |-> 255],
                       !.avail = Append(@, r.idx[1])]
                  /\ vbuf' = [vbuf EXCEPT ![p] = 1]
                  /\ vcaller' = [P EXCEPT ![p] = [pc |-> "disk_sleep", idx |-> r.idx,
                                                  consumed |-> FALSE]]
             ELSE /\ vdisk' = r.k.d
                  /\ vcaller' = [P EXCEPT ![p].pc = "desc_sleep"]
                  /\ UNCHANGED vbuf

\* virtio_disk_rw(b, write): acquire(&disk.vdisk_lock) and the first pass
VirtioDiskRw(p) ==
  /\ panicked = "" /\ vcaller[p].pc = "idle"
  /\ VirtioSubmit(p)
  /\ UNCHANGED nonVirtio

\* back from sleep(&disk.free[0]) with the lock: the next pass of the loop
VirtioRetry(p) ==
  /\ panicked = "" /\ vcaller[p].pc = "desc_woken"
  /\ VirtioSubmit(p)
  /\ UNCHANGED nonVirtio

\* the device takes the posted request for buffer b (requests complete in
\* any order), does the transfer, writes status 0 and adds the head of the
\* chain to the used ring
VirtioDevice(b) ==
  /\ panicked = ""
  /\ \E n \in 1..Len(vdisk.avail) :
       LET id == vdisk.avail[n] IN
         /\ vdisk.info[id].b = b
         /\ vdisk' = [vdisk EXCEPT
               !.avail = SubSeq(@, 1, n - 1) \o SubSeq(@, n + 1, Len(@)),
               !.info[id].status = 0,
               !.used = Append(@, id)]
  /\ UNCHANGED <<vbuf, vcaller, panicked>>
  /\ UNCHANGED nonVirtio

\* virtio_disk_intr's loop over the used-ring entries not yet looked at
RECURSIVE VirtioIntrLoop(_)
VirtioIntrLoop(st) ==
  IF st.d.used = <<>> \/ st.panic # "" THEN st
  ELSE LET id == Head(st.d.used)
           b == st.d.info[id].b
       IN IF st.d.info[id].status # 0
          THEN [st EXCEPT !.panic = "virtio_disk_intr status"]
          ELSE VirtioIntrLoop(
                 [d |-> [st.d EXCEPT !.used = Tail(@)],
                  B |-> [x \in VProcs |-> IF x = b THEN 0 ELSE st.B[x]],
                  P |-> VWakeBuf([x \in VProcs |->
                                   IF x = b THEN [st.P[x] EXCEPT !.consumed = TRUE]
                                   ELSE st.P[x]], b),
                  panic |-> ""])

\* virtio_disk_intr() with completions pending
VirtioDiskIntr ==
  /\ panicked = "" /\ vdisk.used # <<>>
  /\ \E st \in {VirtioIntrLoop([d |-> vdisk, B |-> vbuf, P |-> vcaller, panic |-> ""])} :
        /\ panicked' = st.panic
        /\ vdisk' = st.d /\ vbuf' = st.B /\ vcaller' = st.P
  /\ UNCHANGED nonVirtio

\* back from sleep(b) with the lock: sleep again while b->disk == 1, else
\* clear info[idx[0]].b, free the chain, release and return
VirtioDone(p) ==
  /\ panicked = "" /\ vcaller[p].pc = "disk_woken"
  /\ IF vbuf[p] = 1
     THEN /\ vcaller' = [vcaller EXCEPT ![p].pc = "disk_sleep"]
          /\ UNCHANGED <<vdisk, vbuf, panicked>>
     ELSE \E k \in {FreeChain(VCrit([vdisk EXCEPT !.info[vcaller[p].idx[1]].b = 0]),
                                vcaller[p].idx[1])} :
             /\ panicked' = k.panic
             /\ vdisk' = k.d
             /\ vcaller' = [(IF k.wake THEN VWakeDesc(vcaller) ELSE vcaller) EXCEPT ![p] = VIdle]
             /\ UNCHANGED vbuf
  /\ UNCHANGED nonVirtio

VirtioNext ==
  \/ \E p \in VProcs : VirtioDiskRw(p)
  \/ \E p \in VProcs : VirtioRetry(p)
  \/ \E b \in VProcs : VirtioDevice(b)
  \/ VirtioDiskIntr
  \/ \E p \in VProcs : VirtioDone(p)

\* after virtio_disk_init: no request, every descriptor free
VirtioInitVars ==
  /\ vdisk = VirtioDiskInit
  /\ vbuf = [p \in VProcs |-> 0]
  /\ vcaller = [p \in VProcs |-> VIdle]

VDescBlocked(p) == vcaller[p].pc \in {"desc_sleep", "desc_woken"}
VDescAsleep(p) == vcaller[p].pc = "desc_sleep"
VInFlight(p) == vcaller[p].pc \in {"disk_sleep", "disk_woken"}
VIdxSet(p) == {vcaller[p].idx[n] : n \in 1..Len(vcaller[p].idx)}
VFreeCount == Cardinality({i \in VDescs : vdisk.free[i]})

\* the three descriptors of a request in flight are distinct, non-free and
\* chained; no descriptor belongs to two requests; a descriptor is free
\* exactly when no request in flight has it
VirtioDescsOwned ==
  /\ \A p \in VProcs : VInFlight(p) =>
       /\ Len(vcaller[p].idx) = 3 /\ Cardinality(VIdxSet(p)) = 3
       /\ \A i \in VIdxSet(p) : ~vdisk.free[i]
       /\ vdisk.desc[vcaller[p].idx[1]] = [flag_next |-> TRUE, next |-> vcaller[p].idx[2]]
       /\ vdisk.desc[vcaller[p].idx[2]] = [flag_next |-> TRUE, next |-> vcaller[p].idx[3]]
       /\ ~vdisk.desc[vcaller[p].idx[3]].flag_next
       /\ vdisk.info[vcaller[p].idx[1]].b = p
  /\ \A p, q \in VProcs :
       (p # q /\ VInFlight(p) /\ VInFlight(q)) => VIdxSet(p) \cap VIdxSet(q) = {}
  /\ \A i \in VDescs :
       vdisk.free[i] <=> ~(\E p \in VProcs : VInFlight(p) /\ i \in VIdxSet(p))
  /\ panicked = ""

\* virtio_disk_rw returns only when virtio_disk_intr has consumed the
\* request's used-ring entry and cleared b->disk, and the return frees the
\* request's three descriptors, each of them non-free until then
VirtioReturn ==
  \A p \in VProcs :
    (VInFlight(p) /\ vcaller'[p].pc = "idle") =>
      /\ vbuf[p] = 0 /\ vcaller[p].consumed
      /\ \A n \in 1..Len(vdisk.avail) : vdisk.avail[n] # vcaller[p].idx[1]
      /\ \A n \in 1..Len(vdisk.used) : vdisk.used[n] # vcaller[p].idx[1]
      /\ \A i \in VIdxSet(p) : ~vdisk.free[i] /\ vdisk'.free[i]
      /\ \A i \in VDescs \ VIdxSet(p) : vdisk'.free[i] = vdisk.free[i]
      /\ panicked' = ""

\* b->disk is set exactly while the device or the used ring has the request
VirtioDiskOwned ==
  \A p \in VProcs :
    /\ vbuf[p] = 1 <=> (VInFlight(p) /\ ~vcaller[p].consumed)
    /\ (VInFlight(p) /\ ~vcaller[p].consumed) =>
         \/ \E n \in 1..Len(vdisk.avail) : vdisk.avail[n] = vcaller[p].idx[1]
         \/ \E n \in 1..Len(vdisk.used) : vdisk.used[n] = vcaller[p].idx[1]

\* C40 as stated (disk request protocol): virtio_disk_rw returns only after
\* virtio_disk_intr has consumed the request's used-ring entry and cleared
\* b->disk; the three descriptors of a request in flight are non-free and
\* belong to no other request and are freed exactly once at the return; a
\* caller that finds fewer than three free descriptors sleeps and is
\* eventually served.
C40_DiskRequestProtocol ==
  /\ []VirtioDescsOwned
  /\ [][VirtioReturn]_vars
  /\ \A p \in VProcs : VDescBlocked(p) ~> (VInFlight(p) \/ panicked # "")

\* a caller sleeps for descriptors only while fewer than three are free
VirtioNoLostWakeup == \A p \in VProcs : VDescAsleep(p) => VFreeCount < 3

\* C40 (disk request protocol, amended): the return and descriptor parts as
\* stated; every request in flight completes and returns; a caller asleep
\* for descriptors is never asleep while three are free, is eventually
\* woken, and while it is blocked with three descriptors free it gets them
\* or another caller takes them.
C40_DiskRequestProgress ==
  /\ []VirtioDescsOwned
  /\ []VirtioDiskOwned
  /\ [][VirtioReturn]_vars
  /\ []VirtioNoLostWakeup
  /\ \A p \in VProcs : VInFlight(p) ~> (vcaller[p].pc = "idle" \/ panicked # "")
  /\ \A p \in VProcs : VDescAsleep(p) ~> (~VDescAsleep(p) \/ panicked # "")
  /\ \A p \in VProcs :
       (VDescBlocked(p) /\ VFreeCount >= 3) ~>
         (VInFlight(p) \/ VFreeCount < 3 \/ panicked # "")

\* one caller sleeps for descriptors while two requests are in flight, one
\* of them completed by the interrupt and about to return
C40_Witness ==
  /\ \E p, q, r \in VProcs :
       /\ VDescAsleep(p)
       /\ vcaller[q].pc = "disk_woken" /\ vbuf[q] = 0 /\ vcaller[q].consumed
       /\ vcaller[r].pc = "disk_sleep" /\ vbuf[r] = 1
  /\ VFreeCount < 3
  /\ panicked = ""


----------------------------------------------------------------------------
(***************************************************************************)
(* The specifications.  Each starts every subsystem as its constructor     *)
(* leaves it (binit, initlog on a clean disk) and then runs the actions    *)
(* of one subsystem.                                                       *)
(***************************************************************************)
SpecBioInit ==
  /\ disk = BioDiskInit
  /\ CacheInitVars
  /\ BioInitVars
  /\ LogUnused
  /\ InoUnused
  /\ ProcGroupUnused
  /\ VmUnused
  /\ WriteiUnused
  /\ SpinUnused
  /\ BopUnused
  /\ SchedUnused
  /\ KallocUnused
  /\ VirtioUnused

SpecBio == SpecBioInit /\ [][BioNext]_vars

SpecLogInit ==
  /\ disk = LogDiskInit
  /\ CacheInitVars
  /\ BioUnused
  /\ LogInitVars
  /\ InoUnused
  /\ ProcGroupUnused
  /\ VmUnused
  /\ WriteiUnused
  /\ SpinUnused
  /\ BopUnused
  /\ SchedUnused
  /\ KallocUnused
  /\ VirtioUnused

SpecLog == SpecLogInit /\ [][LogNext]_vars

SpecInodeInit ==
  /\ disk = LogDiskInit
  /\ CacheInitVars
  /\ BioUnused
  /\ LogUnused
  /\ InoInitVars
  /\ ProcGroupUnused
  /\ VmUnused
  /\ WriteiUnused
  /\ SpinUnused
  /\ BopUnused
  /\ SchedUnused
  /\ KallocUnused
  /\ VirtioUnused

SpecInode == SpecInodeInit /\ [][InoNext]_vars

SpecProcInit ==
  /\ disk = LogDiskInit
  /\ CacheInitVars
  /\ BioUnused
  /\ LogUnused
  /\ InoUnused
  /\ ProcInitVars
  /\ VmUnused
  /\ WriteiUnused
  /\ SpinUnused
  /\ BopUnused
  /\ SchedUnused
  /\ KallocUnused
  /\ VirtioUnused

SpecProc == SpecProcInit /\ [][ProcNext]_vars

\* the kernel threads of processes that fork, exit, wait and take timer
\* interrupts
WaitNext ==
  \/ \E h \in Harts : Scheduler(h)
  \/ \E h \in Harts : Yield(h)
  \/ \E h \in Harts, o \in {"ok", "allocproc fails", "uvmcopy fails"} : KforkAlloc(h, o)
  \/ \E h \in Harts : KforkParent(h)
  \/ \E h \in Harts : KforkRunnable(h)
  \/ \E h \in Harts, st \in 0..MaxStatus : Kexit(h, st)
  \/ \E h \in Harts : Wakeup(h)
  \/ \E h \in Harts : KexitZombie(h)
  \/ \E h \in Harts, ok \in BOOLEAN : Kwait(h, ok)
  \/ \E h \in Harts : KwaitChild(h)
  \/ \E h \in Harts : KwaitKilled(h)
  \/ \E h \in Harts : SleepAcquire(h)
  \/ \E h \in Harts : SleepRelease(h)
  \/ \E h \in Harts : SleepSched(h)
  \/ \E h \in Harts : SleepReacquire(h)

\* what a kernel thread does once it is inside the kernel
KernelStep(h) ==
  \/ \E o \in {"ok", "allocproc fails", "uvmcopy fails"} :
       At(h, {"allocproc"}) /\ KforkAlloc(h, o)
  \/ KforkParent(h)
  \/ KforkRunnable(h)
  \/ Wakeup(h)
  \/ KexitZombie(h)
  \/ KwaitChild(h)
  \/ KwaitKilled(h)
  \/ SleepAcquire(h)
  \/ SleepRelease(h)
  \/ SleepSched(h)
  \/ SleepReacquire(h)

\* Fair scheduling: every hart keeps running its scheduler loop and a kernel
\* thread that can take its next step takes it.  What a process does in user
\* space is up to the process.
SpecWaitFair ==
  /\ SpecProcInit
  /\ [][WaitNext]_vars
  /\ \A h \in Harts : WF_vars(Scheduler(h))
  /\ \A h \in Harts : WF_vars(KernelStep(h))


SpecVmInit ==
  /\ disk = LogDiskInit
  /\ CacheInitVars
  /\ BioUnused
  /\ LogUnused
  /\ InoUnused
  /\ ProcGroupUnused
  /\ VmInitVars
  /\ WriteiUnused
  /\ SpinUnused
  /\ BopUnused
  /\ SchedUnused
  /\ KallocUnused
  /\ VirtioUnused

SpecVm == SpecVmInit /\ [][VmNext]_vars

SpecWriteiInit ==
  /\ disk = LogDiskInit
  /\ CacheInitVars
  /\ BioUnused
  /\ LogUnused
  /\ InoUnused
  /\ ProcGroupUnused
  /\ VmUnused
  /\ WriteiInitVars
  /\ SpinUnused
  /\ BopUnused
  /\ SchedUnused
  /\ KallocUnused
  /\ VirtioUnused

SpecWritei == SpecWriteiInit /\ [][WriteiNext]_vars

\* WaitNext with kill: processes also call kkill, and a process found killed
\* calls kexit(-1)
KillNext ==
  \/ WaitNext
  \/ \E h \in Harts : Kexit(h, -1)
  \/ \E h \in Harts, pid \in 1..MaxPid : Kkill(h, pid)

\* the steps fair scheduling makes sure of: the kernel's, and the trap of a
\* killed process
KillStep(h) ==
  \/ KernelStep(h)
  \/ \E pid \in 1..MaxPid : At(h, {"kkill"}) /\ Kkill(h, pid)
  \/ Kexit(h, -1)

\* Fair scheduling: a hart that spins in acquire gets the lock if the lock is
\* free again and again, and the timer interrupt (usertrap, which_dev == 2)
\* makes a process that is in user space again and again yield
SpecKillFair ==
  /\ SpecProcInit
  /\ [][KillNext]_vars
  /\ \A h \in Harts : WF_vars(Scheduler(h))
  /\ \A h \in Harts : SF_vars(KillStep(h))
  /\ \A h \in Harts : SF_vars(Yield(h))

SpecSpinInit ==
  /\ disk = LogDiskInit
  /\ CacheInitVars
  /\ BioUnused
  /\ LogUnused
  /\ InoUnused
  /\ ProcGroupUnused
  /\ VmUnused
  /\ WriteiUnused
  /\ SpinInitVars
  /\ BopUnused
  /\ SchedUnused
  /\ KallocUnused
  /\ VirtioUnused

SpecSpin == SpecSpinInit /\ [][SpinNext]_vars

\* processes that fork, take timer interrupts and use the sleep lock
SleepLockNext ==
  \/ \E h \in Harts : Scheduler(h)
  \/ \E h \in Harts : Yield(h)
  \/ \E h \in Harts, o \in {"ok", "allocproc fails", "uvmcopy fails"} : KforkAlloc(h, o)
  \/ \E h \in Harts : KforkParent(h)
  \/ \E h \in Harts : KforkRunnable(h)
  \/ \E h \in Harts : Wakeup(h)
  \/ \E h \in Harts : SleepAcquire(h)
  \/ \E h \in Harts : SleepRelease(h)
  \/ \E h \in Harts : SleepSched(h)
  \/ \E h \in Harts : SleepReacquire(h)
  \/ \E h \in Harts : Acquiresleep(h)
  \/ \E h \in Harts : Releasesleep(h)

\* what a kernel thread does once it is inside the kernel; a holder of the
\* sleep lock goes on to releasesleep
SleepLockStep(h) ==
  \/ KernelStep(h)
  \/ Releasesleep(h)

\* Fair scheduling: a hart that spins in acquire gets the lock if the lock is
\* free again and again, and the timer interrupt makes a process that is in
\* user space again and again yield
SpecSleepFair ==
  /\ SpecProcInit
  /\ [][SleepLockNext]_vars
  /\ \A h \in Harts : WF_vars(Scheduler(h))
  /\ \A h \in Harts : SF_vars(SleepLockStep(h))
  /\ \A h \in Harts : SF_vars(Yield(h))
\* the process table with the failure path of allocproc and kfork taken one
\* assignment of p->state at a time
LifecycleNext ==
  \/ \E h \in Harts : Scheduler(h)
  \/ \E h \in Harts : Yield(h)
  \/ \E h \in Harts, o \in {"ok", "allocproc fails", "uvmcopy fails"} : KforkAllocUsed(h, o)
  \/ \E h \in Harts : KforkFail(h)
  \/ \E h \in Harts : KforkParent(h)
  \/ \E h \in Harts : KforkRunnable(h)
  \/ \E h \in Harts, st \in {-1} \cup (0..MaxStatus) : Kexit(h, st)
  \/ \E h \in Harts : Wakeup(h)
  \/ \E h \in Harts : KexitZombie(h)
  \/ \E h \in Harts, ok \in BOOLEAN : Kwait(h, ok)
  \/ \E h \in Harts : KwaitChild(h)
  \/ \E h \in Harts : KwaitKilled(h)
  \/ \E h \in Harts : SleepAcquire(h)
  \/ \E h \in Harts : SleepRelease(h)
  \/ \E h \in Harts : SleepSched(h)
  \/ \E h \in Harts : SleepReacquire(h)
  \/ \E h \in Harts : Acquiresleep(h)
  \/ \E h \in Harts : Releasesleep(h)
  \/ \E h \in Harts, pid \in 1..MaxPid : Kkill(h, pid)

SpecLifecycle == SpecProcInit /\ [][LifecycleNext]_vars

SpecBeginOpInit ==
  /\ disk = LogDiskInit
  /\ CacheInitVars
  /\ BioUnused
  /\ LogUnused
  /\ InoUnused
  /\ ProcGroupUnused
  /\ VmUnused
  /\ WriteiUnused
  /\ SpinUnused
  /\ BopInitVars
  /\ SchedUnused
  /\ KallocUnused
  /\ VirtioUnused

\* what a process does once it is inside begin_op or end_op
BopStep(p) ==
  \/ BopRetest(p)
  \/ BopEndOp(p)
  \/ BopCommit(p)
  \/ BopEndCommit(p)

\* Fair scheduling: a process inside begin_op or end_op takes its next step,
\* and an admitted operation reaches end_op.  Whether a process calls
\* begin_op or log_write is up to the process.
SpecBeginOpFair ==
  /\ SpecBeginOpInit
  /\ [][BopNext]_vars
  /\ \A p \in BopProcs : WF_vars(BopStep(p))

SpecSchedInit ==
  /\ disk = LogDiskInit
  /\ CacheInitVars
  /\ BioUnused
  /\ LogUnused
  /\ InoUnused
  /\ ProcGroupUnused
  /\ VmUnused
  /\ WriteiUnused
  /\ SpinUnused
  /\ BopUnused
  /\ SchedInitVars
  /\ KallocUnused
  /\ VirtioUnused

SpecSched == SpecSchedInit /\ [][SchedNext]_vars

\* the scheduler loop of hart h
SchedulerStep(h) ==
  \/ SchedLoop(h)
  \/ SchedScan(h)
  \/ SchedBack(h)

\* what a kernel thread does between its call of yield, sleep or kexit and
\* its return from them
SchedKernelStep(h) ==
  \/ SchedForkret(h)
  \/ SchedYield(h)
  \/ SchedSleepAcquire(h)
  \/ SchedSleepRelease(h)
  \/ SchedExitZombie(h)
  \/ SchedEnter(h)
  \/ SchedResume(h)
  \/ SchedSleepReacquire(h)

\* the ways a running process gets to sched: a timer interrupt, a sleep, an
\* exit
SchedGivesUp(h) ==
  \/ SchedUsertrap(h, "timer")
  \/ SchedSleepCall(h)
  \/ SchedExitCall(h)

\* processes that take timer interrupts in user space, make system calls,
\* sleep, wake each other, exit and are forked again
SchedFairNext ==
  \/ \E h \in SchedHarts : SchedLoop(h)
  \/ \E h \in SchedHarts : SchedScan(h)
  \/ \E h \in SchedHarts : SchedBack(h)
  \/ \E h \in SchedHarts : SchedForkret(h)
  \/ \E h \in SchedHarts, cause \in {"timer", "syscall"} : SchedUsertrap(h, cause)
  \/ \E h \in SchedHarts : SchedReturn(h)
  \/ \E h \in SchedHarts : SchedYield(h)
  \/ \E h \in SchedHarts : SchedSleepCall(h)
  \/ \E h \in SchedHarts : SchedSleepAcquire(h)
  \/ \E h \in SchedHarts : SchedSleepRelease(h)
  \/ \E h \in SchedHarts, q \in SchedProcs : SchedWakeup(h, q)
  \/ \E h \in SchedHarts : SchedExitCall(h)
  \/ \E h \in SchedHarts : SchedExitZombie(h)
  \/ \E h \in SchedHarts : SchedEnter(h)
  \/ \E h \in SchedHarts : SchedResume(h)
  \/ \E h \in SchedHarts : SchedSleepReacquire(h)
  \/ \E h \in SchedHarts, q \in SchedProcs : SchedReapFork(h, q)

\* Fair scheduling: every hart's scheduler loop keeps running, kernel threads
\* take their next step, and every running process gets to sched (the timer
\* interrupt comes again and again while it is in user space)
SpecSchedFair ==
  /\ SpecSchedInit
  /\ [][SchedFairNext]_vars
  /\ \A h \in SchedHarts : WF_vars(SchedulerStep(h))
  /\ \A h \in SchedHarts : WF_vars(SchedKernelStep(h))
  /\ \A h \in SchedHarts : SF_vars(SchedGivesUp(h))

SpecKallocInit ==
  /\ disk = LogDiskInit
  /\ CacheInitVars
  /\ BioUnused
  /\ LogUnused
  /\ InoUnused
  /\ ProcGroupUnused
  /\ VmUnused
  /\ WriteiUnused
  /\ SpinUnused
  /\ BopUnused
  /\ SchedUnused
  /\ KallocInitVars
  /\ VirtioUnused

SpecKalloc == SpecKallocInit /\ [][KheapNext]_vars

SpecVmfaultInit ==
  /\ disk = LogDiskInit
  /\ CacheInitVars
  /\ BioUnused
  /\ LogUnused
  /\ InoUnused
  /\ ProcGroupUnused
  /\ VmfaultInitVars
  /\ WriteiUnused
  /\ SpinUnused
  /\ BopUnused
  /\ SchedUnused
  /\ KallocUnused
  /\ VirtioUnused

SpecVmfault == SpecVmfaultInit /\ [][VmfaultNext]_vars

SpecNamexInit ==
  /\ disk = LogDiskInit
  /\ CacheInitVars
  /\ BioUnused
  /\ LogUnused
  /\ NamexInitVars
  /\ ProcGroupUnused
  /\ VmUnused
  /\ WriteiUnused
  /\ SpinUnused
  /\ BopUnused
  /\ SchedUnused
  /\ KallocUnused
  /\ VirtioUnused

SpecNamex == SpecNamexInit /\ [][NamexNext]_vars
SpecVirtioInit ==
  /\ disk = LogDiskInit
  /\ CacheInitVars
  /\ BioUnused
  /\ LogUnused
  /\ InoUnused
  /\ ProcGroupUnused
  /\ VmUnused
  /\ WriteiUnused
  /\ SpinUnused
  /\ BopUnused
  /\ SchedUnused
  /\ KallocUnused
  /\ VirtioInitVars

\* what a process does once it is inside virtio_disk_rw
VirtioStep(p) ==
  \/ VirtioRetry(p)
  \/ VirtioDone(p)

\* Fair scheduling: a woken process inside virtio_disk_rw takes its next
\* step, the device completes every request posted to it, and its interrupt
\* is taken.  Whether a process calls virtio_disk_rw is up to the process.
SpecVirtioFair ==
  /\ SpecVirtioInit
  /\ [][VirtioNext]_vars
  /\ \A p \in VProcs : WF_vars(VirtioStep(p))
  /\ \A b \in VProcs : WF_vars(VirtioDevice(b))
  /\ WF_vars(VirtioDiskIntr)

============================================================================
